---- MODULE Spec2Model ----
(***************************************************************************)
(* The action execution engine of the backend-driven UI renderer           *)
(* (EnhancedActionHandler in src/src/components/common/DynamicRenderer.tsx)*)
(* as a state machine.  JavaScript is single threaded: an async function   *)
(* runs without interruption from one await to the next, so every action   *)
(* below is one such run-to-suspension segment of executeAction.           *)
(***************************************************************************)
EXTENDS Integers, Sequences, FiniteSets, TLC

\* Bounds of the model.
MaxInv == 3        \* executeAction invocations (fallback invocations included)
MaxTime == 2       \* last value of the clock (Date.now())
MaxOverrides == 2  \* wrappers the renderer stacks on one engine's executeAction
MaxNested == 2     \* conditions in the nested list of a condition
MaxParts == 2      \* pieces (literal text, placeholders) of a template string
MaxLevels == 12    \* levels of a component tree
MaxSiblings == 2   \* children of one component
MaxReconnects == 2 \* largest options.reconnectAttempts of a ConfigClient
MaxPending == 2    \* AsyncStorage calls in flight when a server event is taken

\* Program constants.
DefaultMaxAttempts == 1
DefaultDelay == 1000
WindowCap == 100
WindowKeep == 50
DefaultMaxDepth == 10
maxCacheSize == 50
maxAge == 300000

----------------------------------------------------------------------------
(* Values of the JSON world.  A string is a sequence of tokens; a token is  *)
(* a piece of literal text or one {{path}} placeholder, a path being the    *)
(* sequence of keys between the dots.                                       *)

Undefined == [t |-> "undefined", segs |-> <<>>, n |-> 0, obj |-> <<>>]

Str(segs) == [t |-> "string", segs |-> segs, n |-> 0, obj |-> <<>>]

Text(s) == [ph |-> FALSE, s |-> s, path |-> <<>>]

Placeholder(p) == [ph |-> TRUE, s |-> "", path |-> p]

Lit(s) == Str(<<Text(s)>>)

Tpl(p) == Str(<<Placeholder(p)>>)

Bool(b) == [t |-> "boolean", segs |-> <<>>, n |-> IF b THEN 1 ELSE 0, obj |-> <<>>]

Num(k) == [t |-> "number", segs |-> <<>>, n |-> k, obj |-> <<>>]

Obj(f) == [t |-> "object", segs |-> <<>>, n |-> 0, obj |-> f]

\* null.
Null == [t |-> "null", segs |-> <<>>, n |-> 0, obj |-> <<>>]

\* An array, its elements in obj.
Arr(s) == [t |-> "array", segs |-> <<>>, n |-> 0, obj |-> s]

\* A function, as an object inherits them from Object.prototype.
Fn(name) == [t |-> "function", segs |-> <<Text(name)>>, n |-> 0, obj |-> <<>>]

\* Members every object literal and array inherits: `key in value` is true
\* for them although the data does not hold them.
InheritedKeys == {"constructor", "toString"}

\* JavaScript truthiness of a value.
Truthy(v) ==
    CASE v.t \in {"undefined", "null"} -> FALSE
      [] v.t = "string" -> v.segs # <<>>
      [] v.t = "number" -> v.n # 0
      [] v.t = "boolean" -> v.n = 1
      [] OTHER -> TRUE

\* The own keys of an object or an array ("0", "1", ... and "length").
OwnKeys(value) ==
    CASE value.t = "object" -> DOMAIN value.obj
      [] value.t = "array" -> {ToString(i - 1) : i \in 1..Len(value.obj)} \cup {"length"}
      [] OTHER -> {}

\* value[key] for an own key.
Member(value, key) ==
    IF value.t = "object" THEN value.obj[key]
    ELSE IF key = "length" THEN Num(Len(value.obj))
    ELSE value.obj[CHOOSE i \in 1..Len(value.obj) : ToString(i - 1) = key]

RECURSIVE resolveKeys(_, _)
\* The loop of getFieldValue: follow the keys from the context; a key that is
\* not in an object (or a non-object on the way) gives undefined.  `key in
\* value` looks along the prototype chain too.
resolveKeys(keys, value) ==
    IF keys = <<>> THEN value
    ELSE IF value.t \in {"object", "array"} /\ Head(keys) \in OwnKeys(value)
         THEN resolveKeys(Tail(keys), Member(value, Head(keys)))
         ELSE IF value.t \in {"object", "array"} /\ Head(keys) \in InheritedKeys
         THEN resolveKeys(Tail(keys), Fn(Head(keys)))
         ELSE Undefined

\* getFieldValue: an absent (empty) path is undefined.
getFieldValue(fieldPath, globalData) ==
    IF fieldPath = <<>> THEN Undefined ELSE resolveKeys(fieldPath, globalData)

RECURSIVE StringOf(_)
RECURSIVE Joined(_)
\* Array.prototype.join: the elements' strings with commas between, null and
\* undefined as nothing.
Joined(elements) ==
    IF elements = <<>> THEN <<>>
    ELSE LET h == IF Head(elements).t \in {"undefined", "null"} THEN <<>>
                  ELSE StringOf(Head(elements))
         IN IF Len(elements) = 1 THEN h
            ELSE h \o <<Text(",")>> \o Joined(Tail(elements))

\* String(v) as a sequence of tokens, for inline substitution.
StringOf(v) ==
    CASE v.t = "string" -> v.segs
      [] v.t = "number" -> <<Text(ToString(v.n))>>
      [] v.t = "boolean" -> <<Text(IF v.n = 1 THEN "true" ELSE "false")>>
      [] v.t = "object" -> <<Text("[object Object]")>>
      [] v.t = "array" -> Joined(v.obj)
      [] v.t = "function" -> <<Text("function ")>> \o v.segs \o <<Text("() { [native code] }")>>
      [] v.t = "null" -> <<Text("null")>>
      [] OTHER -> <<Text("undefined")>>

RECURSIVE replaceInline(_, _)
\* obj.replace(/{{path}}/g, ...): every placeholder becomes the text of its
\* value, or nothing when the path is undefined.
replaceInline(segs, globalData) ==
    IF segs = <<>> THEN <<>>
    ELSE LET h == Head(segs)
             v == getFieldValue(h.path, globalData)
             r == IF ~h.ph THEN <<h>>
                  ELSE IF v \notin {Undefined, Null} THEN StringOf(v) ELSE <<>>
         IN r \o replaceInline(Tail(segs), globalData)

\* A string that is exactly one placeholder (the full-match expression).
fullMatch(obj) == obj.t = "string" /\ Len(obj.segs) = 1 /\ obj.segs[1].ph

\* The value of a full match turned into a string.
resolveFullMatch_stringified(obj, globalData) ==
    LET v == getFieldValue(obj.segs[1].path, globalData)
    IN IF v # Undefined THEN Str(StringOf(v)) ELSE obj

\* The full-match branch of traverse: the value of the path as it is in the
\* context, the string itself when the path is undefined.
resolveFullMatch(obj, globalData) ==
    LET v == getFieldValue(obj.segs[1].path, globalData)
    IN IF v # Undefined THEN v ELSE obj

\* The members written into the object or array that was passed in.
rebuilt_inPlace(obj, members) == [obj EXCEPT !.obj = members]

\* obj.map(traverse), and result = {} filled key by key: a new array or
\* object (one that is nobody's yet: n = 0) holds the traversed members.
rebuilt(obj, members) == IF obj.t = "array" THEN Arr(members) ELSE Obj(members)

RECURSIVE interpolatePayload(_, _)
\* interpolatePayload (traverse): a string that is exactly one placeholder
\* becomes the value of its path (itself when undefined); other strings get
\* their placeholders replaced inline; arrays and objects are rebuilt member
\* by member; everything else is returned as it is.
interpolatePayload(payload, globalData) ==
    CASE payload.t = "string" ->
            IF fullMatch(payload) THEN resolveFullMatch(payload, globalData)
            ELSE Str(replaceInline(payload.segs, globalData))
      [] payload.t \in {"array", "object"} ->
            rebuilt(payload, [k \in DOMAIN payload.obj |->
                                interpolatePayload(payload.obj[k], globalData)])
      [] OTHER -> payload

\* A condition expression; hasConditions tells an absent list from an empty
\* one, null a null or undefined in the place of a condition from an object.
Cond(operator, field, value) ==
    [operator |-> operator, field |-> field, value |-> value,
     hasConditions |-> FALSE, conditions |-> <<>>, null |-> FALSE]

\* A condition over nested conditions.
Nested(operator, conditions) ==
    [Cond(operator, <<>>, Undefined) EXCEPT !.hasConditions = TRUE,
                                            !.conditions = conditions]

\* undefined (or null) where a condition is expected.
NullCondition == [Cond("", <<>>, Undefined) EXCEPT !.null = TRUE]

\* A field that is a number instead of a dotted path: fieldPath.split is not
\* a function.
IllTypedField == <<"#number">>

\* A pattern new RegExp() rejects.
InvalidPattern == Lit("(")

\* The operators of the switch of evaluateCondition that read the field.
FieldOperators ==
    {"equals", "notEquals", "greaterThan", "lessThan", "greaterThanOrEqual",
     "lessThanOrEqual", "contains", "startsWith", "endsWith", "exists", "empty", "regex"}

\* The operators of the switch of evaluateCondition.
KnownOperators == FieldOperators \cup {"in", "and", "or", "not"}

\* === of JavaScript: primitives by value; objects, arrays and functions of
\* the context are never the operand a condition carries.
StrictEquals(a, b) == a.t \notin {"object", "array", "function"} /\ a = b

\* RegExp.test for a pattern without metacharacters: the text occurs in the string.
Contains(hay, needle) ==
    \E i \in 0..(Len(hay) - Len(needle)) : SubSeq(hay, i + 1, i + Len(needle)) = needle

\* An exception in the try block left to give true.
onException_failOpen(body) == IF body = "raise" THEN "true" ELSE body

\* The catch block of evaluateCondition: an exception of the try block gives false.
onException(body) == IF body = "raise" THEN "false" ELSE body

RECURSIVE evaluateConditionCall(_, _, _)
RECURSIVE every(_, _, _)
RECURSIVE some(_, _, _)

\* every taken to be false over an empty list.
every_emptyFalse(conditions, globalData, callback) ==
    LET Result(k) == evaluateConditionCall(conditions[k], globalData, callback)
        failing == {k \in 1..Len(conditions) : Result(k) # "true"}
        first == CHOOSE k \in failing : \A j \in failing : k <= j
    IN IF conditions = <<>> THEN "false"
       ELSE IF failing = {} THEN "true"
       ELSE IF Result(first) = "throws" THEN "raise"
       ELSE "false"

\* conditions.every(cond => this.evaluateCondition(cond)): stops at the first
\* condition that is not true; a call that throws ends it with the exception.
every(conditions, globalData, callback) ==
    IF conditions = <<>> THEN "true"
    ELSE LET r == evaluateConditionCall(Head(conditions), globalData, callback)
         IN CASE r = "throws" -> "raise"
              [] r = "false" -> "false"
              [] OTHER -> every(Tail(conditions), globalData, callback)

\* some taken to look at the first condition only.
some_firstOnly(conditions, globalData, callback) ==
    IF conditions = <<>> THEN "false"
    ELSE LET r == evaluateConditionCall(Head(conditions), globalData, callback)
         IN IF r = "throws" THEN "raise" ELSE r

\* conditions.some(...): stops at the first condition that is true.
some(conditions, globalData, callback) ==
    IF conditions = <<>> THEN "false"
    ELSE LET r == evaluateConditionCall(Head(conditions), globalData, callback)
         IN CASE r = "throws" -> "raise"
              [] r = "true" -> "true"
              [] OTHER -> some(Tail(conditions), globalData, callback)

\* The try block of evaluateCondition: "true", "false", or "raise" when it
\* ends with an exception.  The relational, substring and membership
\* operators are given no value: no condition of the model uses them.
tryBlock(condition, globalData, callback) ==
    LET operator == condition.operator
        fv == getFieldValue(condition.field, globalData)
        Truth(b) == IF b THEN "true" ELSE "false"
    IN CASE condition.null -> "raise"
         [] operator \in FieldOperators /\ condition.field = IllTypedField -> "raise"
         [] operator = "equals" -> Truth(StrictEquals(fv, condition.value))
         [] operator = "notEquals" -> Truth(~StrictEquals(fv, condition.value))
         [] operator = "exists" -> Truth(fv # Undefined /\ fv # Null)
         [] operator = "empty" ->
                Truth(\/ ~Truthy(fv)
                      \/ fv.t = "array" /\ fv.obj = <<>>
                      \/ fv.t = "object" /\ DOMAIN fv.obj = {})
         [] operator = "regex" ->
                IF ~Truthy(fv) THEN "false"
                ELSE IF condition.value = InvalidPattern THEN "raise"
                ELSE Truth(Contains(StringOf(fv), StringOf(condition.value)))
         [] operator = "and" ->
                IF ~condition.hasConditions THEN "false"
                ELSE every(condition.conditions, globalData, callback)
         [] operator = "or" ->
                IF ~condition.hasConditions THEN "false"
                ELSE some(condition.conditions, globalData, callback)
         [] operator = "not" ->
                IF ~condition.hasConditions THEN "false"
                ELSE LET first == IF condition.conditions = <<>> THEN NullCondition
                                  ELSE condition.conditions[1]
                         r == evaluateConditionCall(first, globalData, callback)
                     IN CASE r = "throws" -> "raise"
                          [] r = "true" -> "false"
                          [] OTHER -> "true"
         [] operator \notin KnownOperators -> "true"

\* One call of evaluateCondition: "true" or "false" when it returns, "throws"
\* when it ends with an exception.  The finally block reads condition.operator
\* when the performance callback is registered, which throws for a null
\* condition whatever the catch block has returned.
evaluateConditionCall(condition, globalData, callback) ==
    IF callback /\ condition.null THEN "throws"
    ELSE onException(tryBlock(condition, globalData, callback))

RECURSIVE callsOf(_, _, _)
\* The calls of evaluateCondition made for one condition, the call itself and
\* the nested calls of and, or and not up to the one that ends the list: for
\* each the condition, whether its try block raised, and how the call ended.
callsOf(condition, globalData, callback) ==
    LET cs == condition.conditions
        Result(k) == evaluateConditionCall(cs[k], globalData, callback)
        Reached(k) ==
            CASE condition.operator = "and" -> \A j \in 1..(k - 1) : Result(j) = "true"
              [] condition.operator = "or" -> \A j \in 1..(k - 1) : Result(j) = "false"
              [] condition.operator = "not" -> k = 1
              [] OTHER -> FALSE
        nested ==
            IF condition.null \/ ~condition.hasConditions THEN {}
            ELSE IF condition.operator = "not" /\ cs = <<>>
            THEN callsOf(NullCondition, globalData, callback)
            ELSE UNION { callsOf(cs[k], globalData, callback) :
                           k \in {j \in 1..Len(cs) : Reached(j)} }
    IN {[condition |-> condition,
         raised |-> tryBlock(condition, globalData, callback) = "raise",
         result |-> evaluateConditionCall(condition, globalData, callback)]}
       \cup nested

\* evaluateCondition as its callers see it when it returns: true or not.
evaluateCondition(condition, globalData) ==
    evaluateConditionCall(condition, globalData, FALSE) = "true"

----------------------------------------------------------------------------
(* Action descriptors.  An absent optional field is the empty sequence, a    *)
(* present one a sequence of one element; throttle and debounce are absent   *)
(* when 0, as the code tests them for truthiness.                            *)

ActionDefinition(type, payload) ==
    [type |-> type, payload |-> payload, condition |-> <<>>, throttle |-> 0,
     debounce |-> 0, retry |-> <<>>, analytics |-> FALSE, fallback |-> <<>>]

RetryConfig(maxAttempts, delay, backoff) ==
    <<[maxAttempts |-> maxAttempts, delay |-> delay, backoff |-> backoff]>>

\* The verbs of the switch of executeMainAction.
VerbCatalog ==
    {"navigate", "selectLanguage", "selectCategory", "dispatch", "showAlert",
     "openUrl", "shareContent", "vibrate", "updateState", "apiCall", "storage",
     "validation", "analytics", "requestOtp", "verifyOtp", "resendOtp", "selectRole"}

\* Payloads of the model.
PayloadHome == Obj([navigateTo |-> Lit("Home")])

PayloadTemplate == Obj([navigateTo |-> Tpl(<<"dest">>)])

PayloadUrl == Obj([url |-> Lit("https://x")])

PayloadEmpty == Obj(<<>>)

FlagIsTrue == Cond("equals", <<"flag">>, Bool(TRUE))

Navigate == ActionDefinition("navigate", PayloadHome)

NavigateTemplate == ActionDefinition("navigate", PayloadTemplate)

ApiCall == ActionDefinition("apiCall", PayloadUrl)

Invalid == ActionDefinition("invalidActionType", PayloadEmpty)

\* An event handler of a rendered component: the action it dispatches and
\* the context it passes.
Binding(action, componentId) == <<action, [componentId |-> componentId]>>

\* The renderers of the model: the event handlers of the component tree each
\* renders, and how each constructs its engine (navigation wired or not, the
\* performance callback registered or not, the host's onAction installed or
\* not).
Renderers ==
    { \* a screen of navigation buttons, one of them debounced
      [bindings |-> { Binding(Navigate, "btn1"),
                      Binding([Navigate EXCEPT !.debounce = 1], "btn1"),
                      Binding(Navigate, "") },
       navigation |-> TRUE, onPerformanceMetric |-> TRUE, onAction |-> FALSE],
      \* a screen of network calls with retries and fallbacks
      [bindings |-> { Binding([ApiCall EXCEPT !.retry = RetryConfig(2, 1, "linear"),
                                              !.fallback = <<NavigateTemplate>>], "btn1"),
                      Binding([ApiCall EXCEPT !.retry = RetryConfig(0, 0, "")], "btn1"),
                      Binding(NavigateTemplate, "btn1") },
       navigation |-> TRUE, onPerformanceMetric |-> TRUE, onAction |-> FALSE],
      \* a screen whose actions have types the engine does not know
      [bindings |-> { Binding(Invalid, "btn1"),
                      Binding([Invalid EXCEPT !.condition = <<FlagIsTrue>>], "btn2"),
                      Binding([Invalid EXCEPT !.fallback = <<Navigate>>], "btn3") },
       navigation |-> FALSE, onPerformanceMetric |-> FALSE, onAction |-> FALSE],
      \* a screen of throttled and conditional network calls
      [bindings |-> { Binding([ApiCall EXCEPT !.throttle = 1], "btn1"),
                      Binding([ActionDefinition("apiCall", PayloadEmpty) EXCEPT !.throttle = 2], "btn2"),
                      Binding([ApiCall EXCEPT !.condition = <<FlagIsTrue>>, !.debounce = 1,
                                              !.analytics = TRUE], "btn3") },
       navigation |-> TRUE, onPerformanceMetric |-> FALSE, onAction |-> FALSE],
      \* a screen of network calls retried with different back-offs
      [bindings |-> { Binding([ApiCall EXCEPT !.retry = RetryConfig(2, 0, "")], "btn1"),
                      Binding([ApiCall EXCEPT !.retry = RetryConfig(3, 1, "exponential")], "btn2") },
       navigation |-> FALSE, onPerformanceMetric |-> FALSE, onAction |-> FALSE],
      \* a screen whose host supplies onAction
      [bindings |-> { Binding([ApiCall EXCEPT !.fallback = <<NavigateTemplate>>], "btn2") },
       navigation |-> TRUE, onPerformanceMetric |-> TRUE, onAction |-> TRUE] }

\* The action types of the model.
Types == {"navigate", "apiCall", "invalidActionType", "dispatch", "updateState", "showAlert"}

\* The global data the engine is constructed with, and the updates it is given.
InitialGlobalData == Obj([flag |-> Bool(TRUE), dest |-> Lit("Profile")])

GlobalDataUpdates == { [flag |-> Bool(FALSE), dest |-> Lit("Settings")] }

\* The language slice of the store as the reducer creates it, with the
\* preference userLanguage of the key-value store and the
\* storePreference calls that have not settled.
InitialStore ==
    [language |-> [currentLanguage |-> Lit("en"), isRTL |-> FALSE,
                   initialized |-> FALSE],
     userLanguage |-> Undefined, storing |-> <<>>]

----------------------------------------------------------------------------
VARIABLES
    bindings,             \* the event handlers of the rendered component tree
    now,                  \* Date.now()
    navigation,           \* whether a navigation object is wired
    dispatch,             \* whether a dispatch function is wired
    globalData,           \* this.globalData
    constructedWith,      \* the object handed to the constructor, as it is now
    pendingActions,       \* this.pendingActions
    throttleTimers,       \* this.throttleTimers (0: no entry)
    metrics,              \* this.metrics
    executionTimes,       \* this.executionTimes
    onPerformanceMetric,  \* whether the host registered the callback
    onAction,             \* whether the renderer installed the host's onAction
    overrides,            \* the wrappers stacked on the instance's executeAction
    inv,                  \* the executeAction invocations, in call order
    evaluated,            \* the last call of evaluateCondition by the renderer
    interpolated,         \* the last call of interpolatePayload
    rendered,             \* the component tree, maxDepth and what was last rendered
    store,                \* the Redux store: its language slice and the stored preference
    client,               \* the ConfigClient
    cache                 \* the ComponentCacheManager

vars ==
    <<bindings, now, navigation, dispatch, globalData,
                   constructedWith, pendingActions,
      throttleTimers,
      metrics, executionTimes, onPerformanceMetric, onAction, overrides, inv, evaluated,
                   interpolated, rendered, store, client, cache>>

\* The engine as one value, for the operators that model its methods.
Engine ==
    [now |-> now, navigation |-> navigation, dispatch |-> dispatch,
     globalData |-> globalData, pendingActions |-> pendingActions,
     throttleTimers |-> throttleTimers, metrics |-> metrics,
     executionTimes |-> executionTimes, onPerformanceMetric |-> onPerformanceMetric,
     onAction |-> onAction, overrides |-> overrides, inv |-> inv,
     store |-> store]

\* The next state is the engine value E.
Becomes(E) ==
    /\ pendingActions' = E.pendingActions
    /\ throttleTimers' = E.throttleTimers
    /\ metrics' = E.metrics
    /\ executionTimes' = E.executionTimes
    /\ inv' = E.inv
    /\ store' = E.store
    /\ UNCHANGED <<bindings, now, navigation, dispatch, globalData,
                   constructedWith,
                   onPerformanceMetric, onAction, overrides, evaluated,
                   interpolated, rendered, client, cache>>

NoError == [inv |-> 0, attempt |-> 0]

\* generateActionId: the dedup key of an action.
generateActionId(action, context) ==
    <<action.type, action.payload,
      IF context.componentId # "" THEN context.componentId ELSE "unknown">>

\* The window compared the wrong way round.
isThrottled_inverted(E, actionType, throttleMs) ==
    LET lastExecution == E.throttleTimers[actionType]
    IN lastExecution # 0 /\ (E.now - lastExecution) >= throttleMs

\* isThrottled, its result: the type has a timestamp younger than throttleMs.
isThrottled(E, actionType, throttleMs) ==
    LET lastExecution == E.throttleTimers[actionType]
    IN lastExecution # 0 /\ (E.now - lastExecution) < throttleMs

\* Every call stamps the type, the ones that answer true as well.
stampThrottle_alsoWhenThrottled(E, actionType, throttleMs) ==
    [E.throttleTimers EXCEPT ![actionType] = E.now]

\* isThrottled, its effect: a call that answers false stamps the type.
stampThrottle(E, actionType, throttleMs) ==
    IF isThrottled(E, actionType, throttleMs) THEN E.throttleTimers
    ELSE [E.throttleTimers EXCEPT ![actionType] = E.now]

RECURSIVE SumOf(_)
SumOf(times) == IF times = <<>> THEN 0 ELSE Head(times) + SumOf(Tail(times))

\* The quotient sum / length that updateAverageExecutionTime stores.
averageOf(times) == [sum |-> SumOf(times), count |-> Len(times)]

\* The oldest samples kept instead of the newest.
trimExecutionTimes_keepsOldest(times) ==
    IF Len(times) > WindowCap
    THEN SubSeq(times, 1, WindowKeep)
    ELSE times

\* updateAverageExecutionTime, the window: past the cap only the last samples stay.
trimExecutionTimes(times) ==
    IF Len(times) > WindowCap
    THEN SubSeq(times, Len(times) - WindowKeep + 1, Len(times))
    ELSE times

\* A fresh invocation record of executeAction(action, context).  concurrent
\* records whether an invocation with the same key is in flight at the call;
\* calls, navCalls, failures, calledAt and received record what the verb
\* handler (and the navigation object) saw, status the last HTTP status its
\* fetch got and pressed the button callbacks of its alert that fired.
Invocation(E, action, context, parent, viaOnAction) ==
    [action |-> action, context |-> context,
     key |-> generateActionId(action, context),
     parent |-> parent, viaOnAction |-> viaOnAction, threw |-> 0,
     concurrent |-> \E i \in 1..Len(E.inv) :
                        /\ E.inv[i].key = generateActionId(action, context)
                        /\ E.inv[i].pc # "done",
     pc |-> "start", startTime |-> E.now, wakeAt |-> 0, attempt |-> 0,
     status |-> 0, pressed |-> 0,
     calls |-> 0, navCalls |-> 0, failures |-> 0, calledAt |-> 0,
     received |-> Undefined,
     outcome |-> "pending", err |-> NoError, how |-> "",
     analytics |-> 0, samples |-> 0, emitted |-> 0]

\* The marker left behind.
deletePending_forgotten(pending, actionId) == pending

\* this.pendingActions.delete(actionId) of the finally block.
deletePending(pending, actionId) == pending \ {actionId}

\* The marker of a failed invocation left in the pending set.
finally_failureKeepsMarker(E, id, how, outcome, err) ==
    LET r == E.inv[id]
        duration == E.now - r.startTime
    IN [E EXCEPT
          !.pendingActions = IF how = "failure" THEN @ ELSE deletePending(@, r.key),
          !.executionTimes = trimExecutionTimes(Append(@, duration)),
          !.metrics.averageExecutionTime =
              averageOf(trimExecutionTimes(Append(E.executionTimes, duration))),
          !.inv[id] = [@ EXCEPT !.pc = "done", !.how = how, !.outcome = outcome,
                                !.err = err, !.samples = @ + 1,
                                !.emitted = @ + IF E.onPerformanceMetric THEN 1 ELSE 0]]

\* The finally block of executeAction, and the settling of its promise.
finally(E, id, how, outcome, err) ==
    LET r == E.inv[id]
        duration == E.now - r.startTime
    IN [E EXCEPT
          !.pendingActions = deletePending(@, r.key),
          !.executionTimes = trimExecutionTimes(Append(@, duration)),
          !.metrics.averageExecutionTime =
              averageOf(trimExecutionTimes(Append(E.executionTimes, duration))),
          !.inv[id] = [@ EXCEPT !.pc = "done", !.how = how, !.outcome = outcome,
                                !.err = err, !.samples = @ + 1,
                                !.emitted = @ + IF E.onPerformanceMetric THEN 1 ELSE 0]]

\* The default branch of the switch returning instead of throwing.
CanSucceed_unknownVerbToo(E, r) ==
    LET p == r.action.payload.obj
    IN /\ r.action.type = "navigate" =>
             /\ "navigateTo" \in DOMAIN p /\ Truthy(p.navigateTo)
             /\ E.navigation
       /\ r.action.type = "apiCall" => "url" \in DOMAIN p /\ Truthy(p.url)
       /\ r.action.type = "dispatch" =>
             /\ "actionType" \in DOMAIN p /\ Truthy(p.actionType)
             /\ E.dispatch
       /\ r.action.type = "selectLanguage" =>
             /\ "languageCode" \in DOMAIN p /\ Truthy(p.languageCode)
             /\ E.dispatch

\* The navigation object not asked for.
CanSucceed_withoutNavigation(E, r) ==
    LET p == r.action.payload.obj
    IN /\ r.action.type \in VerbCatalog
       /\ r.action.type = "navigate" =>
             /\ "navigateTo" \in DOMAIN p /\ Truthy(p.navigateTo)
       /\ r.action.type = "apiCall" => "url" \in DOMAIN p /\ Truthy(p.url)
       /\ r.action.type = "dispatch" =>
             /\ "actionType" \in DOMAIN p /\ Truthy(p.actionType)
             /\ E.dispatch
       /\ r.action.type = "selectLanguage" =>
             /\ "languageCode" \in DOMAIN p /\ Truthy(p.languageCode)
             /\ E.dispatch

\* Whether the verb handler of the invocation can complete normally.
CanSucceed(E, r) ==
    LET p == r.action.payload.obj
    IN /\ r.action.type \in VerbCatalog
       /\ r.action.type = "navigate" =>
             /\ "navigateTo" \in DOMAIN p /\ Truthy(p.navigateTo)
             /\ E.navigation
       /\ r.action.type = "apiCall" => "url" \in DOMAIN p /\ Truthy(p.url)
       /\ r.action.type = "dispatch" =>
             /\ "actionType" \in DOMAIN p /\ Truthy(p.actionType)
             /\ E.dispatch
       /\ r.action.type = "selectLanguage" =>
             /\ "languageCode" \in DOMAIN p /\ Truthy(p.languageCode)
             /\ E.dispatch

\* Whether the verb handler of the invocation can throw: handleUpdateState
\* only logs, and the promise of handleShowAlert has no reject path.
CanFail(E, r) == r.action.type \notin {"updateState", "showAlert"}

\* What executeMainAction hands to the verb handler.
handlerPayload(E, action) == action.payload

\* The reducer skipped: the thunk leaves the slice as it is.
setLanguage_skipped(language, code) == language

\* The reducer setLanguage.
setLanguage(language, code) ==
    [currentLanguage |-> code,
     isRTL |-> code \in {Lit("ar"), Lit("he"), Lit("ur")},
     initialized |-> TRUE]

\* dispatch(changeLanguage(languageCode)): the thunk runs at once up to its
\* await, so the slice is set before dispatch returns; the call of
\* storePreference is left to settle.
changeLanguage(st, languageCode) ==
    [st EXCEPT !.language = setLanguage(@, languageCode),
               !.storing = Append(@, languageCode)]

\* handleLanguageSelection up to its await: nothing is dispatched without a
\* language code or without a dispatch function.
handleLanguageSelection(E, payload) ==
    IF /\ "languageCode" \in DOMAIN payload.obj
       /\ Truthy(payload.obj.languageCode)
       /\ E.dispatch
    THEN changeLanguage(E.store, payload.obj.languageCode)
    ELSE E.store

\* executeWithRetry, one attempt: executeMainAction calls the verb handler of
\* the type with the payload; an unknown type throws without calling any.
executeMainAction(E, id, attempt) ==
    LET r == E.inv[id]
        known == r.action.type \in VerbCatalog
        reachesNavigation == r.action.type = "navigate" /\ CanSucceed(E, r)
    IN [E EXCEPT
          !.store = IF r.action.type = "selectLanguage"
                    THEN handleLanguageSelection(E, handlerPayload(E, r.action))
                    ELSE @,
          !.inv[id] = [@ EXCEPT !.pc = "handler", !.attempt = attempt,
                                !.calls = @ + IF known THEN 1 ELSE 0,
                                !.calledAt = IF known THEN E.now ELSE @,
                                !.navCalls = @ + IF reachesNavigation THEN 1 ELSE 0,
                                !.received = IF known THEN handlerPayload(E, r.action)
                                             ELSE @]]

\* The condition check left out.
conditionFails_never(E, action) == FALSE

\* The test of the condition check: a condition is set and evaluates false.
conditionFails(E, action) ==
    /\ action.condition # <<>>
    /\ evaluateConditionCall(action.condition[1], E.globalData, E.onPerformanceMetric) # "true"

\* executeAction from the condition check on (after any debounce delay).
checkCondition(E, id) ==
    LET action == E.inv[id].action
    IN IF conditionFails(E, action)
       THEN finally(E, id, "conditionFalse", "resolved", NoError)
       ELSE executeMainAction(E, id, 1)

\* The duplicate check left out.
alreadyPending_never(E, actionId) == FALSE

\* The test of the duplicate check.
alreadyPending(E, actionId) == actionId \in E.pendingActions

\* The debounce step left out.
debounceOf_none(action) == 0

\* The delay of the debounce step (0: none).
debounceOf(action) == action.debounce

\* executeAction up to its first suspension: dedup, throttle, debounce.
executeAction(E, action, context, parent, viaOnAction) ==
    LET id == Len(E.inv) + 1
        actionId == generateActionId(action, context)
        E0 == [E EXCEPT !.inv = Append(@, Invocation(E, action, context, parent, viaOnAction))]
    IN IF alreadyPending(E, actionId)
       THEN finally(E0, id, "duplicate", "resolved", NoError)
       ELSE LET E1 == [E0 EXCEPT !.pendingActions = @ \cup {actionId},
                                 !.metrics.actionsExecuted = @ + 1]
                E2 == [E1 EXCEPT !.throttleTimers =
                          IF action.throttle # 0
                          THEN stampThrottle(E1, action.type, action.throttle)
                          ELSE @]
            IN IF action.throttle # 0 /\ isThrottled(E1, action.type, action.throttle)
               THEN finally(E2, id, "throttled", "resolved", NoError)
               ELSE IF debounceOf(action) # 0
                    THEN [E2 EXCEPT !.inv[id] = [@ EXCEPT !.pc = "debounce",
                                                 !.wakeAt = E.now + debounceOf(action)]]
                    ELSE checkCondition(E2, id)

\* The executeAction property of the engine instance: the method itself, or
\* the wrapper the renderer installs when the host supplies onAction, which
\* hands the host the interpolated action and runs what the property held
\* before (originalExecute) with the original action when the host's handler
\* throws.  Every installation wraps the property as it finds it, so the
\* wrappers stack, the newest outermost; hostThrows is the number of
\* handlers, from the newest on, that throw on this call.
callExecuteAction(E, action, context, parent, hostThrows) ==
    LET id == Len(E.inv) + 1
    IN IF hostThrows >= E.overrides
       THEN [executeAction(E, action, context, parent, E.onAction)
                EXCEPT !.inv[id].threw = E.overrides]
       ELSE [E EXCEPT !.inv = Append(@,
               [Invocation(E, action, context, parent, TRUE) EXCEPT
                   !.pc = "done", !.how = "onAction", !.outcome = "resolved",
                   !.threw = hostThrows,
                   !.received = interpolatePayload(action.payload, E.globalData)])]

\* The fallback ignored.
hasFallback_never(action) == FALSE

\* The test of the catch block: the action has a fallback.
hasFallback(action) == action.fallback # <<>>

\* The catch block of executeAction: count the failure, then run the fallback
\* through the instance's executeAction, or rethrow.
catch(E, id, err, hostThrows) ==
    LET r == E.inv[id]
        E1 == [E EXCEPT !.metrics.actionsFailed = @ + 1]
    IN IF hasFallback(r.action)
       THEN callExecuteAction([E1 EXCEPT !.inv[id].pc = "fallback"],
                              r.action.fallback[1], r.context, id, hostThrows)
       ELSE finally(E1, id, "failure", "rejected", err)

RECURSIVE Pow2(_)
Pow2(k) == IF k <= 0 THEN 1 ELSE 2 * Pow2(k - 1)

\* One attempt too many (attempt <= maxAttempts for attempt < maxAttempts).
maxAttemptsOf_offByOne(action) ==
    (IF action.retry # <<>> /\ action.retry[1].maxAttempts # 0
     THEN action.retry[1].maxAttempts ELSE DefaultMaxAttempts) + 1

\* executeWithRetry, the three settings with their defaults.
maxAttemptsOf(action) ==
    IF action.retry # <<>> /\ action.retry[1].maxAttempts # 0
    THEN action.retry[1].maxAttempts ELSE DefaultMaxAttempts

delayOf(action) ==
    IF action.retry # <<>> /\ action.retry[1].delay # 0
    THEN action.retry[1].delay ELSE DefaultDelay

backoffOf(action) ==
    IF action.retry # <<>> /\ action.retry[1].backoff # ""
    THEN action.retry[1].backoff ELSE "linear"

waitTime(action, attempt) ==
    IF backoffOf(action) = "exponential"
    THEN delayOf(action) * Pow2(attempt - 1)
    ELSE delayOf(action)

\* executeWithRetry, its catch: wait and try again while attempts remain,
\* else throw into the catch block of executeAction.
attemptFailed(E, id, hostThrows) ==
    LET r == E.inv[id]
        E1 == [E EXCEPT !.inv[id].failures = @ + 1]
    IN IF r.attempt < maxAttemptsOf(r.action)
       THEN [E1 EXCEPT !.metrics.retryAttempts = @ + 1,
                       !.inv[id] = [@ EXCEPT !.pc = "backoff",
                                             !.wakeAt = E.now + waitTime(r.action, r.attempt)]]
       ELSE catch(E1, id, [inv |-> id, attempt |-> r.attempt], hostThrows)

\* executeAction after executeWithRetry returned: count, track analytics.
attemptSucceeded(E, id) ==
    LET r == E.inv[id]
        E1 == [E EXCEPT !.metrics.actionsSucceeded = @ + 1,
                        !.inv[id].analytics = @ + IF r.action.analytics THEN 1 ELSE 0]
    IN finally(E1, id, "success", "resolved", NoError)

----------------------------------------------------------------------------
Init ==
    /\ now = 1
    /\ \E c \in Renderers :
          /\ bindings = c.bindings
          /\ navigation = c.navigation
          /\ dispatch = TRUE
          /\ onPerformanceMetric = c.onPerformanceMetric
          /\ onAction = c.onAction
          /\ overrides = IF c.onAction THEN 1 ELSE 0
    /\ globalData = InitialGlobalData
    /\ constructedWith = InitialGlobalData
    /\ pendingActions = {}
    /\ throttleTimers = [ty \in Types |-> 0]
    /\ metrics = [actionsExecuted |-> 0, actionsSucceeded |-> 0, actionsFailed |-> 0,
                  retryAttempts |-> 0, cacheHits |-> 0,
                  averageExecutionTime |-> [sum |-> 0, count |-> 0]]
    /\ executionTimes = <<>>
    /\ inv = <<>>
    /\ evaluated = <<>>
    /\ interpolated = <<>>
    /\ rendered = <<>>
    /\ store = InitialStore
    /\ client = <<>>
    /\ cache = <<>>

\* Invocations that may still call a fallback: each keeps one record free.
Reserved ==
    Cardinality({i \in 1..Len(inv) :
        inv[i].pc \notin {"done", "fallback"} /\ inv[i].action.fallback # <<>>})

\* What the host's handlers may do with an action they are handed: how many
\* of them, from the newest on, throw.
HostOutcomes == 0..overrides

\* The host (a rendered component's event handler) calls executeAction.
Dispatch(action, context, hostThrows) ==
    /\ Len(inv) + Reserved + 1 + (IF action.fallback # <<>> THEN 1 ELSE 0) <= MaxInv
    /\ Becomes(callExecuteAction(Engine, action, context, 0, hostThrows))

\* The timer of sleep(action.debounce) fires.
DebounceEnds(i) ==
    /\ inv[i].pc = "debounce"
    /\ now >= inv[i].wakeAt
    /\ Becomes(checkCondition(Engine, i))

\* The verb handler completes normally (that of showAlert does when a
\* button is pressed).
HandlerResolves(i) ==
    /\ inv[i].pc = "handler"
    /\ inv[i].action.type # "showAlert"
    /\ CanSucceed(Engine, inv[i])
    /\ Becomes(attemptSucceeded(Engine, i))

\* The verb handler throws (or the type has no handler).
HandlerRejects(i, hostThrows) ==
    /\ inv[i].pc = "handler"
    /\ CanFail(Engine, inv[i])
    /\ Becomes(attemptFailed(Engine, i, hostThrows))

\* response.ok taken for granted.
responseOk_always(status) == TRUE

\* response.ok: the status is in the range 200-299.
responseOk(status) == status \in 200..299

\* The fetch of handleApiCall gets a response with the given status.
HttpResponds(i, status, hostThrows) ==
    /\ inv[i].pc = "handler"
    /\ inv[i].action.type = "apiCall"
    /\ CanSucceed(Engine, inv[i])
    /\ LET E == [Engine EXCEPT !.inv[i].status = status]
       IN Becomes(IF responseOk(status)
                  THEN attemptSucceeded(E, i)
                  ELSE attemptFailed(E, i, hostThrows))

\* The user presses a button of the alert: its onPress resolves the promise
\* of handleShowAlert.
AlertButtonPressed(i) ==
    /\ inv[i].pc = "handler"
    /\ inv[i].action.type = "showAlert"
    /\ Becomes(attemptSucceeded([Engine EXCEPT !.inv[i].pressed = @ + 1], i))

\* The timer of the retry back-off fires: the next attempt.
RetryWakes(i) ==
    /\ inv[i].pc = "backoff"
    /\ now >= inv[i].wakeAt
    /\ Becomes(executeMainAction(Engine, i, inv[i].attempt + 1))

\* The fallback awaited in the catch block has settled.
FallbackSettles(i) ==
    /\ inv[i].pc = "fallback"
    /\ \E j \in 1..Len(inv) :
          /\ inv[j].parent = i
          /\ inv[j].pc = "done"
          /\ Becomes(finally(Engine, i, "fallback", inv[j].outcome, inv[j].err))

\* Time passes.
Tick ==
    /\ now < MaxTime
    /\ now' = now + 1
    /\ UNCHANGED <<bindings, navigation, dispatch, globalData,
                   constructedWith, pendingActions,
                   throttleTimers, metrics,
                   executionTimes, onPerformanceMetric, onAction, overrides, inv, evaluated,
                   interpolated, rendered, store, client, cache>>

\* The old keys dropped.
spread_replaces(old, new) == Obj(new)

\* { ...old, ...new }: a new object with the keys of both, those of new winning.
spread(old, new) ==
    Obj([k \in DOMAIN old.obj \cup DOMAIN new |->
            IF k \in DOMAIN new THEN new[k] ELSE old.obj[k]])

\* updateGlobalData(newGlobalData): this.globalData becomes a new object with
\* the merged keys; the object it was is not written.
UpdateGlobalData(newGlobalData) ==
    /\ globalData' = spread(globalData, newGlobalData)
    /\ globalData' # globalData
    /\ UNCHANGED <<bindings, now, navigation, dispatch, constructedWith, pendingActions,
                   throttleTimers, metrics,
                   executionTimes, onPerformanceMetric, onAction, overrides, inv, evaluated,
                   interpolated, rendered, store, client, cache>>

\* A re-render that hands the renderer another onAction for the same engine:
\* the override effect runs again and wraps the executeAction it finds.
Rerender ==
    /\ onAction
    /\ overrides < MaxOverrides
    /\ overrides' = overrides + 1
    /\ UNCHANGED <<bindings, now, navigation, dispatch, globalData,
                   constructedWith, pendingActions,
                   throttleTimers, metrics, executionTimes, onPerformanceMetric, onAction,
                   inv, evaluated, interpolated, rendered, store, client, cache>>

Next ==
    \/ \E d \in bindings, hostThrows \in HostOutcomes :
          Dispatch(d[1], d[2], hostThrows)
    \/ \E i \in 1..Len(inv) : DebounceEnds(i)
    \/ \E i \in 1..Len(inv) : HandlerResolves(i)
    \/ \E i \in 1..Len(inv), hostThrows \in HostOutcomes : HandlerRejects(i, hostThrows)
    \/ \E i \in 1..Len(inv) : RetryWakes(i)
    \/ \E i \in 1..Len(inv) : FallbackSettles(i)
    \/ Tick
    \/ \E d \in GlobalDataUpdates : UpdateGlobalData(d)
    \/ Rerender

Spec == Init /\ [][Next]_vars

----------------------------------------------------------------------------
(* The engine after a long run: the window of durations is close to its cap. *)

\* The durations of n earlier invocations.
History(n) == [k \in 1..n |-> k % 7]

\* A screen of two navigation buttons.
WindowBindings == { Binding(Navigate, "btn1"), Binding(Navigate, "") }

\* The engine has settled n invocations, all of them succeeded, none pending.
InitWindow ==
    /\ now = 1
    /\ bindings = WindowBindings
    /\ navigation = TRUE
    /\ dispatch = TRUE
    /\ onPerformanceMetric = TRUE
    /\ onAction = FALSE
    /\ overrides = 0
    /\ globalData = InitialGlobalData
    /\ constructedWith = InitialGlobalData
    /\ pendingActions = {}
    /\ throttleTimers = [ty \in Types |-> 0]
    /\ \E n \in (WindowCap - MaxInv)..WindowCap :
          /\ executionTimes = History(n)
          /\ metrics = [actionsExecuted |-> n, actionsSucceeded |-> n, actionsFailed |-> 0,
                        retryAttempts |-> 0, cacheHits |-> 0,
                        averageExecutionTime |-> averageOf(History(n))]
    /\ inv = <<>>
    /\ evaluated = <<>>
    /\ interpolated = <<>>
    /\ rendered = <<>>
    /\ store = InitialStore
    /\ client = <<>>
    /\ cache = <<>>

NextWindow ==
    \/ \E d \in bindings : Dispatch(d[1], d[2], 0)
    \/ \E i \in 1..Len(inv) : HandlerResolves(i)
    \/ \E i \in 1..Len(inv) : HandlerRejects(i, 0)
    \/ Tick

SpecWindow == InitWindow /\ [][NextWindow]_vars

----------------------------------------------------------------------------
(* The verbs with outside effects: navigation, state mutation, alerts and   *)
(* network calls, on engines with and without the capabilities wired.       *)

PayloadDispatch == Obj([actionType |-> Lit("setFlag")])

PayloadState == Obj([key |-> Lit("flag")])

PayloadAlert == Obj([title |-> Lit("Notice")])

\* The statuses of the HTTP responses of the model.
HttpStatuses == {200, 404}

VerbRenderers ==
    { \* nothing wired
      [bindings |-> { Binding(Navigate, "btn1"),
                      Binding(ActionDefinition("updateState", PayloadState), "btn2"),
                      Binding(ActionDefinition("dispatch", PayloadDispatch), "btn3") },
       navigation |-> FALSE, dispatch |-> FALSE],
      \* everything wired: a navigation without target, an alert
      [bindings |-> { Binding([ActionDefinition("navigate", PayloadEmpty)
                                  EXCEPT !.fallback = <<Navigate>>], "btn1"),
                      Binding(ActionDefinition("dispatch", PayloadDispatch), "btn3"),
                      Binding(ActionDefinition("showAlert", PayloadAlert), "btn4") },
       navigation |-> TRUE, dispatch |-> TRUE],
      \* network calls with analytics, one with a fallback
      [bindings |-> { Binding([ApiCall EXCEPT !.analytics = TRUE], "btn1"),
                      Binding([ApiCall EXCEPT !.analytics = TRUE,
                                              !.fallback = <<Navigate>>], "btn2") },
       navigation |-> TRUE, dispatch |-> TRUE] }

InitVerbs ==
    /\ now = 1
    /\ \E c \in VerbRenderers :
          /\ bindings = c.bindings
          /\ navigation = c.navigation
          /\ dispatch = c.dispatch
    /\ onPerformanceMetric = FALSE
    /\ onAction = FALSE
    /\ overrides = 0
    /\ globalData = InitialGlobalData
    /\ constructedWith = InitialGlobalData
    /\ pendingActions = {}
    /\ throttleTimers = [ty \in Types |-> 0]
    /\ metrics = [actionsExecuted |-> 0, actionsSucceeded |-> 0, actionsFailed |-> 0,
                  retryAttempts |-> 0, cacheHits |-> 0,
                  averageExecutionTime |-> [sum |-> 0, count |-> 0]]
    /\ executionTimes = <<>>
    /\ inv = <<>>
    /\ evaluated = <<>>
    /\ interpolated = <<>>
    /\ rendered = <<>>
    /\ store = InitialStore
    /\ client = <<>>
    /\ cache = <<>>

NextVerbs ==
    \/ \E d \in bindings : Dispatch(d[1], d[2], 0)
    \/ \E i \in 1..Len(inv) : inv[i].action.type # "apiCall" /\ HandlerResolves(i)
    \/ \E i \in 1..Len(inv) : inv[i].action.type # "apiCall" /\ HandlerRejects(i, 0)
    \/ \E i \in 1..Len(inv), status \in HttpStatuses : HttpResponds(i, status, 0)
    \/ \E i \in 1..Len(inv) : AlertButtonPressed(i)
    \/ \E i \in 1..Len(inv) : FallbackSettles(i)
    \/ Tick

SpecVerbs == InitVerbs /\ [][NextVerbs]_vars

----------------------------------------------------------------------------
(* The engine under updates of its context.                                 *)

\* A screen with a templated navigation and a conditional network call.
ContextBindings ==
    { Binding(NavigateTemplate, "btn1"),
      Binding([ApiCall EXCEPT !.condition = <<FlagIsTrue>>], "btn3") }

\* The objects the renderer hands to updateGlobalData.
ContextUpdates ==
    { [flag |-> Bool(FALSE)],
      [dest |-> Lit("Settings")],
      [flag |-> Bool(TRUE), count |-> Num(1)],
      [flag |-> Bool(FALSE), dest |-> Lit("Home"), count |-> Num(2)] }

InitContext ==
    /\ now = 1
    /\ bindings = ContextBindings
    /\ navigation = TRUE
    /\ dispatch = TRUE
    /\ onPerformanceMetric = FALSE
    /\ onAction = FALSE
    /\ overrides = 0
    /\ globalData = InitialGlobalData
    /\ constructedWith = InitialGlobalData
    /\ pendingActions = {}
    /\ throttleTimers = [ty \in Types |-> 0]
    /\ metrics = [actionsExecuted |-> 0, actionsSucceeded |-> 0, actionsFailed |-> 0,
                  retryAttempts |-> 0, cacheHits |-> 0,
                  averageExecutionTime |-> [sum |-> 0, count |-> 0]]
    /\ executionTimes = <<>>
    /\ inv = <<>>
    /\ evaluated = <<>>
    /\ interpolated = <<>>
    /\ rendered = <<>>
    /\ store = InitialStore
    /\ client = <<>>
    /\ cache = <<>>

NextContext ==
    \/ \E d \in bindings : Dispatch(d[1], d[2], 0)
    \/ \E i \in 1..Len(inv) : HandlerResolves(i)
    \/ \E i \in 1..Len(inv) : HandlerRejects(i, 0)
    \/ \E d \in ContextUpdates : UpdateGlobalData(d)

SpecContext == InitContext /\ [][NextContext]_vars

----------------------------------------------------------------------------
(* The condition evaluator, called by the renderer for the show and hide    *)
(* conditions of a component.                                               *)

\* The conditions a nested list is made of.
NestedElements ==
    { Cond("equals", <<"flag">>, Bool(TRUE)),
      Cond("regex", <<"dest">>, InvalidPattern),
      Cond("between", <<"count">>, Num(1)),
      Nested("and", <<>>),
      Nested("or", <<>>),
      NullCondition }

\* The lists of nested conditions, up to MaxNested long.
NestedLists == UNION { [1..n -> NestedElements] : n \in 0..MaxNested }

\* The conditions the renderer evaluates.
ConditionInputs ==
    { Cond("equals", <<"flag">>, Bool(TRUE)),
      Cond("notEquals", <<"dest">>, Lit("Profile")),
      Cond("exists", <<"count">>, Undefined),
      Cond("exists", IllTypedField, Undefined),
      Cond("empty", <<"missing", "deeper">>, Undefined),
      Cond("regex", <<"dest">>, Lit("Profile")),
      Cond("regex", <<"dest">>, InvalidPattern),
      Cond("regex", <<"missing">>, InvalidPattern),
      Cond("between", <<"count">>, Num(1)),
      Cond("", <<>>, Undefined),
      Cond("exists", <<"missing">>, Undefined),
      Cond("exists", <<"dest", "length">>, Undefined),
      Cond("exists", <<"constructor">>, Undefined),
      Cond("empty", <<"flag", "on">>, Undefined),
      Cond("empty", <<"constructor">>, Undefined),
      Cond("equals", <<"missing">>, Undefined),
      Cond("equals", <<"missing">>, Null),
      Cond("equals", <<"missing", "deeper">>, Lit("Profile")),
      Cond("equals", <<"dest", "length">>, Num(7)),
      Cond("and", <<>>, Undefined),
      Cond("or", <<>>, Undefined),
      Cond("not", <<>>, Undefined) }
    \cup { Nested(operator, conditions) :
              operator \in {"and", "or", "not"}, conditions \in NestedLists }

\* The contexts the conditions are evaluated in.
ConditionUpdates ==
    { [flag |-> Bool(FALSE)],
      [flag |-> Bool(TRUE), count |-> Num(1)] }

RECURSIVE HasMissingSegment(_, _)
\* A dotted path one of whose keys the data does not hold.
HasMissingSegment(keys, value) ==
    /\ keys # <<>>
    /\ \/ Head(keys) \notin OwnKeys(value)
       \/ HasMissingSegment(Tail(keys), Member(value, Head(keys)))

\* shouldRender: the renderer evaluates a show or hide condition.
EvaluateCondition(condition) ==
    /\ evaluated' =
          <<[condition |-> condition,
             result |-> evaluateConditionCall(condition, globalData, onPerformanceMetric),
             read |-> getFieldValue(condition.field, globalData),
             missing |-> HasMissingSegment(condition.field, globalData),
             calls |-> callsOf(condition, globalData, onPerformanceMetric)]>>
    /\ UNCHANGED <<bindings, now, navigation, dispatch, globalData, constructedWith,
                   pendingActions, throttleTimers, metrics, executionTimes,
                   onPerformanceMetric, onAction, overrides, inv, interpolated, rendered, store, client, cache>>

InitConditions ==
    /\ now = 1
    /\ bindings = {}
    /\ navigation = TRUE
    /\ dispatch = TRUE
    /\ onPerformanceMetric \in BOOLEAN
    /\ onAction = FALSE
    /\ overrides = 0
    /\ globalData = InitialGlobalData
    /\ constructedWith = InitialGlobalData
    /\ pendingActions = {}
    /\ throttleTimers = [ty \in Types |-> 0]
    /\ metrics = [actionsExecuted |-> 0, actionsSucceeded |-> 0, actionsFailed |-> 0,
                  retryAttempts |-> 0, cacheHits |-> 0,
                  averageExecutionTime |-> [sum |-> 0, count |-> 0]]
    /\ executionTimes = <<>>
    /\ inv = <<>>
    /\ evaluated = <<>>
    /\ interpolated = <<>>
    /\ rendered = <<>>
    /\ store = InitialStore
    /\ client = <<>>
    /\ cache = <<>>

NextConditions ==
    \/ \E condition \in ConditionInputs : EvaluateCondition(condition)
    \/ \E d \in ConditionUpdates : UpdateGlobalData(d)

SpecConditions == InitConditions /\ [][NextConditions]_vars

----------------------------------------------------------------------------
(* Template interpolation, called by the renderer for the props and the     *)
(* text of a component and for the payload of an action.  Objects and       *)
(* arrays that exist before the call carry their identity in n; the ones a  *)
(* call creates have n = 0.                                                 *)

\* The object or array value, as the one with identity addr.
At(addr, value) == [value EXCEPT !.n = addr]

RECURSIVE Identities(_)
\* The identities of the objects and arrays a value is made of.
Identities(value) ==
    IF value.t \notin {"object", "array"} THEN {}
    ELSE (IF value.n = 0 THEN {} ELSE {value.n})
         \cup UNION { Identities(value.obj[k]) : k \in DOMAIN value.obj }

\* The context of the screen: scalars, an object and an array.
InterpolateGlobalData ==
    Obj([name |-> Lit("Ann"), count |-> Num(2),
         user |-> At(101, Obj([name |-> Lit("Ann"), tags |-> At(102, Arr(<<Lit("a"), Num(1)>>))]))])

\* Updates of the context: a text that holds a placeholder itself, a falsy
\* number, a null.
InterpolateUpdates ==
    { [name |-> Tpl(<<"count">>)],
      [count |-> Num(0)],
      [user |-> Null] }

\* The pieces of the template strings.
Pieces ==
    { Text("hi "), Placeholder(<<"name">>), Placeholder(<<"count">>),
      Placeholder(<<"user">>), Placeholder(<<"user", "tags">>), Placeholder(<<"missing">>) }

\* The template strings of up to MaxParts pieces.
Templates == { Str(segs) : segs \in UNION { [1..n -> Pieces] : n \in 1..MaxParts } }

\* The props (or the payload) of a component: a text, and an array holding
\* an object, each an object of the component tree.
PropsInputs ==
    { At(1, Obj([text |-> s,
                 items |-> At(2, Arr(<<s, Num(1), At(3, Obj([label |-> s]))>>))])) :
        s \in { Str(<<piece>>) : piece \in Pieces } }

\* The values handed to interpolatePayload: strings, other scalars, and
\* props or payload objects holding strings, arrays and objects.
InterpolateInputs ==
    Templates
    \cup { Lit("plain"), Num(1), Bool(TRUE), Null, Undefined }
    \cup PropsInputs

\* { ...props }: a new object with the members of props.
shallowCopy(props) == Obj(props.obj)

\* delete newProps.text for a Text component whose text is truthy.
withoutText(type, newProps) ==
    IF type = "Text" /\ "text" \in DOMAIN newProps.obj /\ Truthy(newProps.obj["text"])
    THEN Obj([k \in DOMAIN newProps.obj \ {"text"} |-> newProps.obj[k]])
    ELSE newProps

\* processedProps of a component without actions: the props are copied, the
\* copy interpolated, the result copied and adjusted to the component type.
ProcessProps(type, props) ==
    /\ LET result == interpolatePayload(shallowCopy(props), globalData)
       IN interpolated' =
             <<[input |-> props,
                result |-> result,
                output |-> withoutText(type, shallowCopy(result)),
                again |-> interpolatePayload(result, globalData)]>>
    /\ UNCHANGED <<bindings, now, navigation, dispatch, globalData, constructedWith,
                   pendingActions, throttleTimers, metrics, executionTimes,
                   onPerformanceMetric, onAction, overrides, inv, evaluated, rendered, store, client, cache>>

\* A call interpolatePayload(payload) for a text or a payload, and a second
\* call on its result.
Interpolate(payload) ==
    /\ LET result == interpolatePayload(payload, globalData)
       IN interpolated' =
             <<[input |-> payload,
                result |-> result,
                output |-> result,
                again |-> interpolatePayload(result, globalData)]>>
    /\ UNCHANGED <<bindings, now, navigation, dispatch, globalData, constructedWith,
                   pendingActions, throttleTimers, metrics, executionTimes,
                   onPerformanceMetric, onAction, overrides, inv, evaluated, rendered, store, client, cache>>

InitInterpolate ==
    /\ now = 1
    /\ bindings = {}
    /\ navigation = TRUE
    /\ dispatch = TRUE
    /\ onPerformanceMetric = FALSE
    /\ onAction = FALSE
    /\ overrides = 0
    /\ globalData = InterpolateGlobalData
    /\ constructedWith = InterpolateGlobalData
    /\ pendingActions = {}
    /\ throttleTimers = [ty \in Types |-> 0]
    /\ metrics = [actionsExecuted |-> 0, actionsSucceeded |-> 0, actionsFailed |-> 0,
                  retryAttempts |-> 0, cacheHits |-> 0,
                  averageExecutionTime |-> [sum |-> 0, count |-> 0]]
    /\ executionTimes = <<>>
    /\ inv = <<>>
    /\ evaluated = <<>>
    /\ interpolated = <<>>
    /\ rendered = <<>>
    /\ store = InitialStore
    /\ client = <<>>
    /\ cache = <<>>

NextInterpolate ==
    \/ \E payload \in InterpolateInputs : Interpolate(payload)
    \/ \E type \in {"View", "Text"}, props \in PropsInputs : ProcessProps(type, props)
    \/ \E d \in InterpolateUpdates : UpdateGlobalData(d)

SpecInterpolate == InitInterpolate /\ [][NextInterpolate]_vars

----------------------------------------------------------------------------
(* The renderer: what React mounts for a component tree.                    *)

\* A component of the tree: hide and show are absent (<<>>) or hold the
\* condition, text is props.text.
Node(type, children) ==
    [type |-> type, text |-> Undefined, hide |-> <<>>, show |-> <<>>,
     children |-> children]

TextNode(text) == [Node("Text", <<>>) EXCEPT !.text = text]

WithConditions(component, hide, show) ==
    [component EXCEPT !.hide = hide, !.show = show]

\* Keys of COMPONENT_MAP.
COMPONENT_MAP == {"View", "Text", "TouchableOpacity", "ScrollView", "Image"}

\* COMPONENT_MAP[type]: a component, undefined, or a member the object
\* literal inherits from its prototype (not a component: mounting it throws).
lookup(type) ==
    IF type \in COMPONENT_MAP THEN "component"
    ELSE IF type \in InheritedKeys THEN "inherited"
    ELSE "undefined"

\* A component that rendered nothing (null).
Nothing == [type |-> "", depth |-> 0, content |-> Undefined, children |-> <<>>]

\* A component whose mounting threw.
Thrown == [type |-> "#error", depth |-> 0, content |-> Undefined, children |-> <<>>]

\* The depth guard taken away.
tooDeep_never(depth, maxDepth) == FALSE

\* The depth guard one level early.
tooDeep_atLimit(depth, maxDepth) == depth >= maxDepth

\* if (depth > maxDepth) return null.
tooDeep(depth, maxDepth) == depth > maxDepth

\* shouldRender with show checked first: a true show condition renders.
shouldRender_showFirst(component, data, callback) ==
    IF component.show # <<>>
    THEN evaluateConditionCall(component.show[1], data, callback) = "true"
    ELSE ~(/\ component.hide # <<>>
           /\ evaluateConditionCall(component.hide[1], data, callback) = "true")

\* shouldRender: false when the hide condition is there and true, then false
\* when the show condition is there and not true.
shouldRender(component, data, callback) ==
    IF /\ component.hide # <<>>
       /\ evaluateConditionCall(component.hide[1], data, callback) = "true"
    THEN FALSE
    ELSE IF /\ component.show # <<>>
            /\ evaluateConditionCall(component.show[1], data, callback) # "true"
    THEN FALSE
    ELSE TRUE

\* A null where the tree should hold a component.
NullComponent ==
    [type |-> "#null", text |-> Undefined, hide |-> <<>>, show |-> <<>>,
     children |-> <<>>]

\* The hooks of OptimizedDynamicComponent run before its early returns: the
\* destructuring of a null component throws, so does a condition whose
\* evaluation throws (show is not evaluated under a true hide), and so does
\* child.id of a null child unless the text of a Text stands for the
\* children.
hooksThrow(component, data, callback) ==
    \/ component = NullComponent
    \/ /\ component.hide # <<>>
       /\ evaluateConditionCall(component.hide[1], data, callback) = "throws"
    \/ /\ component.show # <<>>
       /\ ~(/\ component.hide # <<>>
            /\ evaluateConditionCall(component.hide[1], data, callback) = "true")
       /\ evaluateConditionCall(component.show[1], data, callback) = "throws"
    \/ /\ ~(component.type = "Text" /\ Truthy(component.text))
       /\ \E k \in DOMAIN component.children : component.children[k] = NullComponent

RECURSIVE mount(_, _, _, _, _)
\* What an OptimizedDynamicComponent element becomes when React mounts it:
\* nothing beyond maxDepth, when it should not render, or when its type is
\* unknown; otherwise the component of its type with its text, or with its
\* children mounted one level deeper.
mount(component, depth, maxDepth, data, callback) ==
    IF hooksThrow(component, data, callback) THEN Thrown
    ELSE IF tooDeep(depth, maxDepth) THEN Nothing
    ELSE IF ~shouldRender(component, data, callback) THEN Nothing
    ELSE IF lookup(component.type) = "undefined" THEN Nothing
    ELSE IF lookup(component.type) = "inherited" THEN Thrown
    ELSE IF component.type = "Text" /\ Truthy(component.text)
    THEN [type |-> component.type, depth |-> depth,
          content |-> interpolatePayload(component.text, data),
          children |-> <<>>]
    ELSE [type |-> component.type, depth |-> depth, content |-> Undefined,
          children |-> [k \in DOMAIN component.children |->
                          mount(component.children[k], depth + 1, maxDepth,
                                data, callback)]]

RECURSIVE Chain(_, _)
\* A tree of n levels: Views nested in one another around a leaf.
Chain(n, leaf) == IF n = 1 THEN leaf ELSE Node("View", <<Chain(n - 1, leaf)>>)

\* Trees of 1 to MaxLevels levels, the deepest component a known one or one
\* whose mounting would throw.
ChainTrees ==
    { <<Chain(n, leaf)>> :
        n \in 1..MaxLevels, leaf \in {Node("View", <<>>), Node("constructor", <<>>)} }

\* The hide and show conditions of the model: absent, or true or false by
\* the context.
Visibilities ==
    { <<>>, <<Cond("equals", <<"flag">>, Bool(TRUE))>>, <<Cond("exists", <<"count">>, Undefined)>> }

\* A View with conditions around a Text with conditions.
ConditionTrees ==
    { <<WithConditions(
          Node("View", <<WithConditions(TextNode(Tpl(<<"dest">>)), hide, <<>>),
                         WithConditions(TextNode(Lit("shown")), <<>>, show)>>),
          hide, show)>> :
        hide \in Visibilities, show \in Visibilities }

\* The components a parent holds in the sibling trees.
Siblings ==
    { TextNode(Lit("a")),
      Node("TouchableOpacity", <<TextNode(Tpl(<<"dest">>))>>),
      Node("BogusWidget", <<TextNode(Lit("inside"))>>),
      Node("constructor", <<>>) }

\* A View with up to MaxSiblings children.
SiblingTrees ==
    { <<Node("View", children)>> :
        children \in UNION { [1..n -> Siblings] : n \in 1..MaxSiblings } }

ComponentTrees == ChainTrees \cup ConditionTrees \cup SiblingTrees

\* The maxDepth props of the model.
MaxDepths == {0, 2, DefaultMaxDepth}

RECURSIVE AnyThrown(_)
\* Whether the mounting of a component, or of one mounted in it, threw.
AnyThrown(out) ==
    out = Thrown \/ \E k \in DOMAIN out.children : AnyThrown(out.children[k])

\* ProductionDynamicRenderer: every component of componentTree is mounted at
\* depth 0 inside the error boundary, which shows its fallback when the
\* mounting of a component throws.
Render(componentTree, maxDepth) ==
    /\ LET output == [k \in DOMAIN componentTree |->
                        mount(componentTree[k], 0, maxDepth, globalData,
                              onPerformanceMetric)]
       IN rendered' =
             <<[componentTree |-> componentTree,
                maxDepth |-> maxDepth,
                output |-> output,
                threw |-> \E k \in DOMAIN output : AnyThrown(output[k])]>>
    /\ UNCHANGED <<bindings, now, navigation, dispatch, globalData, constructedWith,
                   pendingActions, throttleTimers, metrics, executionTimes,
                   onPerformanceMetric, onAction, overrides, inv, evaluated, interpolated,
                   store, client, cache>>

InitRender ==
    /\ now = 1
    /\ bindings = {}
    /\ navigation = TRUE
    /\ dispatch = TRUE
    /\ onPerformanceMetric \in BOOLEAN
    /\ onAction = FALSE
    /\ overrides = 0
    /\ globalData = InitialGlobalData
    /\ constructedWith = InitialGlobalData
    /\ pendingActions = {}
    /\ throttleTimers = [ty \in Types |-> 0]
    /\ metrics = [actionsExecuted |-> 0, actionsSucceeded |-> 0, actionsFailed |-> 0,
                  retryAttempts |-> 0, cacheHits |-> 0,
                  averageExecutionTime |-> [sum |-> 0, count |-> 0]]
    /\ executionTimes = <<>>
    /\ inv = <<>>
    /\ evaluated = <<>>
    /\ interpolated = <<>>
    /\ rendered = <<>>
    /\ store = InitialStore
    /\ client = <<>>
    /\ cache = <<>>

NextRender ==
    \/ \E componentTree \in ComponentTrees, maxDepth \in MaxDepths :
          Render(componentTree, maxDepth)
    \/ \E d \in ConditionUpdates : UpdateGlobalData(d)

SpecRender == InitRender /\ [][NextRender]_vars

----------------------------------------------------------------------------
(* The error boundary of the renderer.  ProductionDynamicRenderer builds    *)
(* the elements of the roots in its own body and hands them to              *)
(* ProductionErrorBoundary as children; React mounts the children under the *)
(* boundary.                                                                *)

\* Trees that hold a null where a component should be: as a root, as a root
\* after a good one, as a child.
NullTrees ==
    { <<NullComponent>>,
      <<Node("View", <<>>), NullComponent>>,
      <<Node("View", <<NullComponent>>)>>,
      <<Node("View", <<TextNode(Lit("a")), NullComponent>>)>> }

BoundaryTrees == SiblingTrees \cup NullTrees

\* componentTree.map(...) in the body of ProductionDynamicRenderer reads
\* component.id of every root: it throws for a null root, in the renderer
\* itself and so above the boundary.
renderedComponentsThrows(componentTree) ==
    \E k \in DOMAIN componentTree : componentTree[k] = NullComponent

\* The state of the boundary when it was constructed.
NoBoundaryError == FALSE

\* getDerivedStateFromError: hasError becomes true when a child threw.
getDerivedStateFromError(hasError, threw) == hasError \/ threw

\* What is on the screen and in the boundary after the boundary rendered
\* the roots of componentTree starting from hasError: its fallback when it
\* is in error, without mounting the children; otherwise the children, and
\* the fallback when mounting them throws.
boundaryRender(componentTree, maxDepth, hasError, by) ==
    LET output == IF hasError THEN <<>>
                  ELSE [k \in DOMAIN componentTree |->
                          mount(componentTree[k], 0, maxDepth, globalData,
                                onPerformanceMetric)]
        threw == \E k \in DOMAIN output : AnyThrown(output[k])
        after == getDerivedStateFromError(hasError, threw)
    IN [componentTree |-> componentTree, maxDepth |-> maxDepth,
        output |-> output, threw |-> threw, hasError |-> after,
        shown |-> IF after THEN "fallback" ELSE "tree",
        escaped |-> FALSE, by |-> by]

\* The renderer is on the screen with its boundary.
Alive == rendered # <<>> /\ ~rendered[1].escaped

\* The host renders ProductionDynamicRenderer with new props: the first
\* time, or again.  An exception of the renderer's own body reaches the host
\* and React takes the renderer off the screen; otherwise the boundary keeps
\* its state from one render to the next.
RenderRenderer(componentTree, maxDepth) ==
    /\ rendered' =
          IF renderedComponentsThrows(componentTree)
          THEN <<[componentTree |-> componentTree, maxDepth |-> maxDepth,
                  output |-> <<>>, threw |-> TRUE, hasError |-> NoBoundaryError,
                  shown |-> "nothing", escaped |-> TRUE, by |-> "render"]>>
          ELSE <<boundaryRender(componentTree, maxDepth,
                                IF Alive THEN rendered[1].hasError ELSE NoBoundaryError,
                                "render")>>
    /\ UNCHANGED <<bindings, now, navigation, dispatch, globalData, constructedWith,
                   pendingActions, throttleTimers, metrics, executionTimes,
                   onPerformanceMetric, onAction, overrides, inv, evaluated, interpolated,
                   store, client, cache>>

\* The user presses Try Again in the fallback: setState({hasError: false})
\* and the boundary renders its children again.
Retry ==
    /\ Alive
    /\ rendered[1].shown = "fallback"
    /\ rendered' = <<boundaryRender(rendered[1].componentTree, rendered[1].maxDepth,
                                    FALSE, "retry")>>
    /\ UNCHANGED <<bindings, now, navigation, dispatch, globalData, constructedWith,
                   pendingActions, throttleTimers, metrics, executionTimes,
                   onPerformanceMetric, onAction, overrides, inv, evaluated, interpolated,
                   store, client, cache>>

InitBoundary == InitRender

NextBoundary ==
    \/ \E componentTree \in BoundaryTrees, maxDepth \in MaxDepths :
          RenderRenderer(componentTree, maxDepth)
    \/ Retry

SpecBoundary == InitBoundary /\ [][NextBoundary]_vars

----------------------------------------------------------------------------
(* The engine on a language selection screen, wired to the store or not.    *)

PayloadEs == Obj([languageCode |-> Lit("es")])

PayloadArHome == Obj([languageCode |-> Lit("ar"), navigateTo |-> Lit("Home")])

FlagIsFalse == Cond("equals", <<"flag">>, Bool(FALSE))

SelectEs == ActionDefinition("selectLanguage", PayloadEs)

\* A button that selects es, one that selects ar and navigates, with es as
\* its fallback, and one whose condition is false in the context.
LanguageBindings ==
    { Binding(SelectEs, "es"),
      Binding([ActionDefinition("selectLanguage", PayloadArHome)
                  EXCEPT !.fallback = <<SelectEs>>], "ar"),
      Binding([ActionDefinition("selectLanguage", PayloadEmpty)
                  EXCEPT !.condition = <<FlagIsFalse>>], "none") }

InitLanguage ==
    /\ now = 1
    /\ bindings = LanguageBindings
    /\ navigation = TRUE
    /\ dispatch \in BOOLEAN
    /\ onPerformanceMetric = FALSE
    /\ onAction = FALSE
    /\ overrides = 0
    /\ globalData = InitialGlobalData
    /\ constructedWith = InitialGlobalData
    /\ pendingActions = {}
    /\ throttleTimers = [ty \in Types |-> 0]
    /\ metrics = [actionsExecuted |-> 0, actionsSucceeded |-> 0, actionsFailed |-> 0,
                  retryAttempts |-> 0, cacheHits |-> 0,
                  averageExecutionTime |-> [sum |-> 0, count |-> 0]]
    /\ executionTimes = <<>>
    /\ inv = <<>>
    /\ evaluated = <<>>
    /\ interpolated = <<>>
    /\ rendered = <<>>
    /\ store = InitialStore
    /\ client = <<>>
    /\ cache = <<>>

\* AsyncStorage.setItem of a storePreference call settles: the preference is
\* written, or the call fails and the thunk logs the failure.
StorePreferenceSettles(k, written) ==
    /\ k \in DOMAIN store.storing
    /\ store' = [store EXCEPT
                    !.storing = SubSeq(@, 1, k - 1) \o SubSeq(@, k + 1, Len(@)),
                    !.userLanguage = IF written THEN store.storing[k] ELSE @]
    /\ UNCHANGED <<bindings, now, navigation, dispatch, globalData, constructedWith,
                   pendingActions, throttleTimers, metrics, executionTimes,
                   onPerformanceMetric, onAction, overrides, inv, evaluated,
                   interpolated, rendered, client, cache>>

NextLanguage ==
    \/ \E d \in bindings : Dispatch(d[1], d[2], 0)
    \/ \E i \in 1..Len(inv) : HandlerResolves(i)
    \/ \E i \in 1..Len(inv) : HandlerRejects(i, 0)
    \/ \E i \in 1..Len(inv) : FallbackSettles(i)
    \/ \E k \in 1..MaxInv, written \in BOOLEAN : StorePreferenceSettles(k, written)

SpecLanguage == InitLanguage /\ [][NextLanguage]_vars

----------------------------------------------------------------------------
(* The engine with its maintenance methods: the host reads and resets the   *)
(* metrics and clears the caches while actions run.                         *)

\* A network call whose fallback is the same call, a throttled one, and one
\* whose condition is false in the context.
MetricsBindings ==
    { Binding([ApiCall EXCEPT !.fallback = <<ApiCall>>], "btn1"),
      Binding([ApiCall EXCEPT !.throttle = 1], "btn2"),
      Binding([ApiCall EXCEPT !.condition = <<FlagIsFalse>>], "btn3") }

\* The metrics of a fresh engine.
NoMetrics ==
    [actionsExecuted |-> 0, actionsSucceeded |-> 0, actionsFailed |-> 0,
     retryAttempts |-> 0, cacheHits |-> 0,
     averageExecutionTime |-> [sum |-> 0, count |-> 0]]

InitMetrics ==
    /\ now = 1
    /\ bindings = MetricsBindings
    /\ navigation = FALSE
    /\ dispatch = TRUE
    /\ onPerformanceMetric = FALSE
    /\ onAction = FALSE
    /\ overrides = 0
    /\ globalData = InitialGlobalData
    /\ constructedWith = InitialGlobalData
    /\ pendingActions = {}
    /\ throttleTimers = [ty \in Types |-> 0]
    /\ metrics = NoMetrics
    /\ executionTimes = <<>>
    /\ inv = <<>>
    /\ evaluated = <<>>
    /\ interpolated = <<>>
    /\ rendered = <<>>
    /\ store = InitialStore
    /\ client = <<>>
    /\ cache = <<>>

\* resetMetrics(): the counters and the window start again.
ResetMetrics ==
    /\ metrics' = NoMetrics
    /\ executionTimes' = <<>>
    /\ <<metrics', executionTimes'>> # <<metrics, executionTimes>>
    /\ UNCHANGED <<bindings, now, navigation, dispatch, globalData, constructedWith,
                   pendingActions, throttleTimers, onPerformanceMetric, onAction,
                   overrides, inv, evaluated, interpolated, rendered, store, client,
                   cache>>

\* clearCache(): the pending set and the throttle timestamps are emptied.
ClearCache ==
    /\ pendingActions' = {}
    /\ throttleTimers' = [ty \in Types |-> 0]
    /\ <<pendingActions', throttleTimers'>> # <<pendingActions, throttleTimers>>
    /\ UNCHANGED <<bindings, now, navigation, dispatch, globalData, constructedWith,
                   metrics, executionTimes, onPerformanceMetric, onAction,
                   overrides, inv, evaluated, interpolated, rendered, store, client,
                   cache>>

NextMetrics ==
    \/ \E d \in bindings : Dispatch(d[1], d[2], 0)
    \/ \E i \in 1..Len(inv) : HandlerResolves(i)
    \/ \E i \in 1..Len(inv) : HandlerRejects(i, 0)
    \/ \E i \in 1..Len(inv) : FallbackSettles(i)
    \/ ResetMetrics
    \/ ClearCache

SpecMetrics == InitMetrics /\ [][NextMetrics]_vars

----------------------------------------------------------------------------
(* The engine on a screen of throttled buttons, watched for longer than the *)
(* throttle windows.                                                        *)

\* Two network calls throttled alike and one with a shorter throttle.
ThrottleBindings ==
    { Binding([ApiCall EXCEPT !.throttle = 2], "btn1"),
      Binding([ActionDefinition("apiCall", PayloadEmpty) EXCEPT !.throttle = 2], "btn2"),
      Binding([ActionDefinition("apiCall", PayloadEmpty) EXCEPT !.throttle = 1], "btn3") }

InitThrottle ==
    /\ now = 1
    /\ bindings = ThrottleBindings
    /\ navigation = TRUE
    /\ dispatch = TRUE
    /\ onPerformanceMetric = FALSE
    /\ onAction = FALSE
    /\ overrides = 0
    /\ globalData = InitialGlobalData
    /\ constructedWith = InitialGlobalData
    /\ pendingActions = {}
    /\ throttleTimers = [ty \in Types |-> 0]
    /\ metrics = NoMetrics
    /\ executionTimes = <<>>
    /\ inv = <<>>
    /\ evaluated = <<>>
    /\ interpolated = <<>>
    /\ rendered = <<>>
    /\ store = InitialStore
    /\ client = <<>>
    /\ cache = <<>>

\* Time passes, one step beyond the clock of the other specifications.
LateTick ==
    /\ now < MaxTime + 1
    /\ now' = now + 1
    /\ UNCHANGED <<bindings, navigation, dispatch, globalData, constructedWith,
                   pendingActions, throttleTimers, metrics, executionTimes,
                   onPerformanceMetric, onAction, overrides, inv, evaluated,
                   interpolated, rendered, store, client, cache>>

NextThrottle ==
    \/ \E d \in bindings : Dispatch(d[1], d[2], 0)
    \/ \E i \in 1..Len(inv) : HandlerResolves(i)
    \/ LateTick

SpecThrottle == InitThrottle /\ [][NextThrottle]_vars

----------------------------------------------------------------------------
(* ConfigClient, its connection: the socket.io socket is created with       *)
(* reconnection off and the client reconnects by a timer of its own.  The   *)
(* socket is null, or in one of the states of a socket.io socket:           *)
(* connecting, connected, failed (after connect_error), lost (after a       *)
(* disconnect the client did not ask for), closed (after close() or a       *)
(* disconnect by the server).  did names the last call or event, opened     *)
(* tells whether it opened a connection, stopped whether the host's last    *)
(* call was disconnect().                                                   *)

Connection(limit, autoReconnect) ==
    [socket |-> "null", connected |-> FALSE, reconnectTimer |-> 0, timers |-> {},
     reconnectAttempts |-> 0, limit |-> limit, autoReconnect |-> autoReconnect,
     stopped |-> FALSE, did |-> "new", opened |-> FALSE]

\* socket.active: the socket is connected or has been told to connect and
\* not to disconnect.
active(c) == c.socket \in {"connecting", "connected", "failed", "lost"}

\* connect(): nothing with an active socket, socket.connect() with an
\* inactive one, a new socket from io() without one.
connect(c) ==
    IF c.socket # "null" /\ active(c) THEN c
    ELSE [c EXCEPT !.socket = "connecting", !.opened = TRUE]

\* The cap tested one attempt late.
capReached_late(c) == c.reconnectAttempts > c.limit

\* The test of attemptReconnection for the cap.
capReached(c) == c.reconnectAttempts >= c.limit

\* attemptReconnection: nothing when connected; otherwise the timer held in
\* reconnectTimer is cleared, and unless the cap is reached the counter is
\* incremented and a new timer set.
attemptReconnection(c) ==
    IF c.connected /\ c.socket = "connected" THEN c
    ELSE LET c1 == IF c.reconnectTimer # 0
                   THEN [c EXCEPT !.timers = @ \ {c.reconnectTimer},
                                  !.reconnectTimer = 0]
                   ELSE c
             handle == CHOOSE n \in 1..(Cardinality(c1.timers) + 1) : n \notin c1.timers
         IN IF capReached(c1) THEN c1
            ELSE [c1 EXCEPT !.reconnectAttempts = @ + 1,
                            !.reconnectTimer = handle,
                            !.timers = @ \cup {handle}]

\* The handler of the socket's disconnect event.
onDisconnect(c, reason) ==
    LET c1 == [c EXCEPT !.connected = FALSE]
    IN IF c1.autoReconnect /\ reason # "io server disconnect"
       THEN attemptReconnection(c1)
       ELSE c1

\* socket.close() (socket.disconnect()): the socket becomes inactive, and a
\* connected one emits disconnect with the reason io client disconnect
\* before the call returns.
socketClose(c) ==
    IF c.socket = "connected"
    THEN onDisconnect([c EXCEPT !.socket = "closed"], "io client disconnect")
    ELSE [c EXCEPT !.socket = "closed"]

\* disconnect(): nothing without a socket; otherwise the socket is
\* disconnected and dropped.
disconnect(c) ==
    IF c.socket = "null" THEN c
    ELSE [socketClose(c) EXCEPT !.socket = "null", !.connected = FALSE]

\* The callback of the reconnect timer: close the socket if there is one,
\* then connect().
reconnectNow(c) == connect(IF c.socket # "null" THEN socketClose(c) ELSE c)

\* The next state of the client is c, reached by the named call or event.
ClientBecomes(c, did) ==
    /\ client' = [c EXCEPT !.did = did]
    /\ UNCHANGED <<bindings, now, navigation, dispatch, globalData, constructedWith,
                   pendingActions, throttleTimers, metrics, executionTimes,
                   onPerformanceMetric, onAction, overrides, inv, evaluated,
                   interpolated, rendered, store, cache>>

\* The client before the call or event: nothing opened yet in this step.
Before == [client EXCEPT !.opened = FALSE]

\* The host calls connect().
Connect ==
    /\ client # <<>>
    /\ ClientBecomes(connect([Before EXCEPT !.stopped = FALSE]), "connect()")

\* The host calls disconnect().
Disconnect ==
    /\ client # <<>>
    /\ ClientBecomes(disconnect([Before EXCEPT !.stopped = TRUE]), "disconnect()")

\* The socket emits connect.
SocketConnect ==
    /\ client.socket = "connecting"
    /\ ClientBecomes([Before EXCEPT !.socket = "connected", !.connected = TRUE,
                                    !.reconnectAttempts = 0], "connect")

\* The socket emits connect_error.
SocketConnectError ==
    /\ client.socket = "connecting"
    /\ LET c == [Before EXCEPT !.socket = "failed"]
       IN ClientBecomes(IF c.autoReconnect THEN attemptReconnection(c) ELSE c,
                        "connect_error")

\* The socket emits disconnect: the transport closed, or the server
\* disconnected the socket.
SocketDisconnect(reason) ==
    /\ client.socket = "connected"
    /\ ClientBecomes(onDisconnect([Before EXCEPT !.socket =
                                       IF reason = "io server disconnect"
                                       THEN "closed" ELSE "lost"], reason),
                     "disconnect")

\* A reconnect timer fires.
ReconnectTimerFires(handle) ==
    /\ handle \in client.timers
    /\ ClientBecomes(reconnectNow([Before EXCEPT !.timers = @ \ {handle}]), "timer")

InitReconnect ==
    /\ now = 1
    /\ bindings = {}
    /\ navigation = TRUE
    /\ dispatch = TRUE
    /\ onPerformanceMetric = FALSE
    /\ onAction = FALSE
    /\ overrides = 0
    /\ globalData = InitialGlobalData
    /\ constructedWith = InitialGlobalData
    /\ pendingActions = {}
    /\ throttleTimers = [ty \in Types |-> 0]
    /\ metrics = [actionsExecuted |-> 0, actionsSucceeded |-> 0, actionsFailed |-> 0,
                  retryAttempts |-> 0, cacheHits |-> 0,
                  averageExecutionTime |-> [sum |-> 0, count |-> 0]]
    /\ executionTimes = <<>>
    /\ inv = <<>>
    /\ evaluated = <<>>
    /\ interpolated = <<>>
    /\ rendered = <<>>
    /\ store = InitialStore
    /\ \E limit \in 0..MaxReconnects, autoReconnect \in BOOLEAN :
          client = Connection(limit, autoReconnect)
    /\ cache = <<>>

NextReconnect ==
    \/ Connect
    \/ Disconnect
    \/ SocketConnect
    \/ SocketConnectError
    \/ \E reason \in {"transport close", "io server disconnect"} : SocketDisconnect(reason)
    \/ \E handle \in 1..(MaxReconnects + 1) : ReconnectTimerFires(handle)

SpecReconnect == InitReconnect /\ [][NextReconnect]_vars

----------------------------------------------------------------------------
(* ConfigClient, its configurations: the constructor starts                 *)
(* loadCachedConfigurations, which awaits AsyncStorage twice before it      *)
(* assigns this.configs; the handlers of the server's events assign         *)
(* this.configs at once and then save.  AsyncStorage serves its calls in    *)
(* the order they were made (native); the JavaScript after an await runs    *)
(* as a step of its own.  load is the position of the cache load, got the   *)
(* value its last getItem produced.                                         *)

Screens == {"Home", "Auth"}

ScreenConfig(version, metadata) ==
    [version |-> version, screenType |-> TRUE, metadata |-> metadata, components |-> TRUE]

validateScreenConfig(config) ==
    config.screenType /\ config.metadata /\ config.components

\* JSON.stringify and JSON.parse of a configuration map.
stringify(configs) == [json |-> configs]
parse(text) == text.json

\* What an earlier run left in AsyncStorage: nothing, or a cache whose
\* timestamp is within cacheExpiry or older.
PersistedConfigs == "Home" :> ScreenConfig(0, TRUE)
Storages ==
    {[cache |-> Null, metadata |-> Null]}
    \cup {[cache |-> stringify(PersistedConfigs), metadata |-> stringify([timestamp |-> age])] :
             age \in {"fresh", "expired"}}

\* What the server sends.
ServerConfig == ScreenConfig(1, TRUE)
InvalidConfig == ScreenConfig(2, FALSE)
FullSyncs == {"Home" :> ServerConfig, "Home" :> ServerConfig @@ "Auth" :> InvalidConfig}

\* The client after its constructor: the connection fields, no
\* configurations, and the cache load waiting for its first getItem.
ConfigClient(storage, offlineSupport) ==
    Connection(MaxReconnects, TRUE)
    @@ [configs |-> << >>, offlineSupport |-> offlineSupport, storage |-> storage,
        load |-> IF offlineSupport THEN "getMetadata" ELSE "done",
        native |-> IF offlineSupport THEN <<[op |-> "getItem", key |-> "metadata"]>>
                   ELSE << >>,
        got |-> Null, applied |-> FALSE]

\* loadCachedConfigurations after its second await: this.configs becomes
\* the parsed cache if there is one.
loadCachedConfigurations(c) ==
    [c EXCEPT !.configs = IF c.got # Null THEN parse(c.got) ELSE @,
              !.load = "done"]

\* saveCachedConfigurations up to its first await: setItem with the
\* configurations as they are now.
saveCachedConfigurations(c) ==
    IF c.offlineSupport
    THEN [c EXCEPT !.native = Append(@, [op |-> "setItem", key |-> "cache",
                                         value |-> stringify(c.configs)])]
    ELSE c

\* AsyncStorage completes the oldest call.  The JavaScript that follows a
\* setItem or removeItem of the cache only makes the next call
\* (saveCachedConfigurations, clearCache) and is part of the step.
AsyncStorageCompletes ==
    /\ client.native # << >>
    /\ LET call == Head(client.native)
           c == [Before EXCEPT !.native = Tail(@)]
       IN ClientBecomes(
            CASE call.op = "getItem" ->
                   [c EXCEPT !.got = c.storage[call.key],
                             !.load = IF call.key = "metadata" THEN "metadata" ELSE "configs"]
              [] call.op = "setItem" /\ call.key = "cache" ->
                   [c EXCEPT !.storage.cache = call.value,
                             !.native = Append(@, [op |-> "setItem", key |-> "metadata",
                                                   value |-> stringify([timestamp |-> "fresh"])])]
              [] call.op = "setItem" /\ call.key = "metadata" ->
                   [c EXCEPT !.storage.metadata = call.value]
              [] call.op = "removeItem" /\ call.key = "cache" ->
                   [c EXCEPT !.storage.cache = Null,
                             !.native = Append(@, [op |-> "removeItem", key |-> "metadata"])]
              [] call.op = "removeItem" /\ call.key = "metadata" ->
                   [c EXCEPT !.storage.metadata = Null, !.load = "done"],
            "AsyncStorage")

\* loadCachedConfigurations after its first await: an expired cache is
\* cleared, otherwise the cache is asked for.
CacheMetadataLoaded ==
    /\ client.load = "metadata"
    /\ ClientBecomes(
         IF client.got # Null /\ parse(client.got).timestamp = "expired"
         THEN [Before EXCEPT !.load = "clearCache",
                             !.native = Append(@, [op |-> "removeItem", key |-> "cache"])]
         ELSE [Before EXCEPT !.load = "getConfigs",
                             !.native = Append(@, [op |-> "getItem", key |-> "cache"])],
         "loadCachedConfigurations")

\* loadCachedConfigurations after its second await.
CachedConfigsLoaded ==
    /\ client.load = "configs"
    /\ ClientBecomes(loadCachedConfigurations(Before), "loadCachedConfigurations")

\* The socket emits screenConfigUpdate.
ScreenConfigUpdate(screen, config) ==
    /\ client.socket = "connected"
    /\ Len(client.native) < MaxPending
    /\ ClientBecomes(
         IF validateScreenConfig(config)
         THEN saveCachedConfigurations(
                [Before EXCEPT !.configs = (screen :> config) @@ @, !.applied = TRUE])
         ELSE Before,
         "screenConfigUpdate")

\* The socket emits the legacy configUpdate: no validation, no save.
ConfigUpdate(screen, config) ==
    /\ client.socket = "connected"
    /\ ClientBecomes([Before EXCEPT !.configs = (screen :> config) @@ @], "configUpdate")

\* The socket emits fullConfigSync: the valid configurations replace
\* this.configs.
FullConfigSync(configs) ==
    /\ client.socket = "connected"
    /\ Len(client.native) < MaxPending
    /\ LET valid == {screen \in DOMAIN configs : validateScreenConfig(configs[screen])}
           validatedConfigs == [screen \in valid |-> configs[screen]]
       IN ClientBecomes(
            saveCachedConfigurations(
              [Before EXCEPT !.configs = validatedConfigs, !.applied = TRUE]),
            "fullConfigSync")

InitConfigs ==
    /\ now = 1
    /\ bindings = {}
    /\ navigation = TRUE
    /\ dispatch = TRUE
    /\ onPerformanceMetric = FALSE
    /\ onAction = FALSE
    /\ overrides = 0
    /\ globalData = InitialGlobalData
    /\ constructedWith = InitialGlobalData
    /\ pendingActions = {}
    /\ throttleTimers = [ty \in Types |-> 0]
    /\ metrics = [actionsExecuted |-> 0, actionsSucceeded |-> 0, actionsFailed |-> 0,
                  retryAttempts |-> 0, cacheHits |-> 0,
                  averageExecutionTime |-> [sum |-> 0, count |-> 0]]
    /\ executionTimes = <<>>
    /\ inv = <<>>
    /\ evaluated = <<>>
    /\ interpolated = <<>>
    /\ rendered = <<>>
    /\ store = InitialStore
    /\ \E storage \in Storages, offlineSupport \in BOOLEAN :
          client = ConfigClient(storage, offlineSupport)
    /\ cache = <<>>

NextConfigs ==
    \/ Connect
    \/ SocketConnect
    \/ AsyncStorageCompletes
    \/ CacheMetadataLoaded
    \/ CachedConfigsLoaded
    \/ \E screen \in Screens, config \in {ServerConfig, InvalidConfig} :
          ScreenConfigUpdate(screen, config)
    \/ \E screen \in Screens : ConfigUpdate(screen, ServerConfig)
    \/ \E configs \in FullSyncs : FullConfigSync(configs)

SpecConfigs == InitConfigs /\ [][NextConfigs]_vars

----------------------------------------------------------------------------
(* ComponentCacheManager: a Map from key to entry, kept here as the         *)
(* sequence of its entries in insertion order (the order of Map.forEach).   *)
(* A key is a name followed by a number, "k7", or a name alone when the     *)
(* number is 0; the empty name with 0 is the empty string.  The data and    *)
(* the accessCount of an entry are read by getStats only and left out.      *)
(* time is Date.now(), advances counts the times it moved.                  *)

Key(name, n) == [name |-> name, n |-> n]

\* if (lruKey): a string is truthy unless it is empty.
TruthyKey(key) == key # Key("", 0)

Entry(key, time) == [key |-> key, timestamp |-> time, lastAccessed |-> time]

HasKey(entries, key) == \E i \in 1..Len(entries) : entries[i].key = key

\* Map.delete.
MapDelete(entries, key) == SelectSeq(entries, LAMBDA e : e.key # key)

\* Map.set: an existing key keeps its place.
MapSet(entries, entry) ==
    IF HasKey(entries, entry.key)
    THEN [i \in 1..Len(entries) |-> IF entries[i].key = entry.key THEN entry ELSE entries[i]]
    ELSE Append(entries, entry)

\* The forEach of evictLeastRecentlyUsed from entry i on, with the lruKey
\* and lruTime found so far.
RECURSIVE leastRecentlyUsed(_, _, _, _)
leastRecentlyUsed(entries, i, lruKey, lruTime) ==
    IF i > Len(entries) THEN lruKey
    ELSE IF entries[i].lastAccessed < lruTime
         THEN leastRecentlyUsed(entries, i + 1, entries[i].key, entries[i].lastAccessed)
         ELSE leastRecentlyUsed(entries, i + 1, lruKey, lruTime)

evictLeastRecentlyUsed(entries, time) ==
    LET lruKey == leastRecentlyUsed(entries, 1, Key("", 0), time)
    IN IF TruthyKey(lruKey) THEN MapDelete(entries, lruKey) ELSE entries

\* set(key, data).
cacheSet(entries, key, time) ==
    MapSet(IF Len(entries) >= maxCacheSize
           THEN evictLeastRecentlyUsed(entries, time)
           ELSE entries,
           Entry(key, time))

\* get(key).
cacheGet(entries, key, time) ==
    IF ~HasKey(entries, key) THEN entries
    ELSE LET cached == CHOOSE e \in {entries[i] : i \in 1..Len(entries)} : e.key = key
         IN IF time - cached.timestamp > maxAge
            THEN MapDelete(entries, key)
            ELSE MapSet(entries, [cached EXCEPT !.lastAccessed = time])

\* The keys of the calls: the empty string, a new key, and one the cache
\* holds from the start.
CacheKeys == {Key("", 0), Key("a", 0), Key("k", 2)}

\* A cache of n entries: one with the key first set at time t0, then
\* k2 .. kn set at time t1.
Filled(n, first, t0, t1) ==
    [i \in 1..n |-> IF i = 1 THEN Entry(first, t0) ELSE Entry(Key("k", i), t1)]

CacheBecomes(entries) ==
    /\ cache' = [cache EXCEPT !.entries = entries]
    /\ UNCHANGED <<bindings, now, navigation, dispatch, globalData, constructedWith,
                   pendingActions, throttleTimers, metrics, executionTimes,
                   onPerformanceMetric, onAction, overrides, inv, evaluated,
                   interpolated, rendered, store, client>>

CacheSet(key) ==
    /\ cache # <<>>
    /\ CacheBecomes(cacheSet(cache.entries, key, cache.time))

CacheGet(key) ==
    /\ cache # <<>>
    /\ CacheBecomes(cacheGet(cache.entries, key, cache.time))

CacheClear ==
    /\ cache # <<>>
    /\ CacheBecomes(<<>>)

\* Date.now() moves on, by a millisecond or by more than maxAge.
TimePasses(ms) ==
    /\ cache.advances < MaxTime
    /\ cache' = [cache EXCEPT !.time = @ + ms, !.advances = @ + 1]
    /\ UNCHANGED <<bindings, now, navigation, dispatch, globalData, constructedWith,
                   pendingActions, throttleTimers, metrics, executionTimes,
                   onPerformanceMetric, onAction, overrides, inv, evaluated,
                   interpolated, rendered, store, client>>

\* The cache one or no entry below its cap, after calls of set at time 0
\* or in the present millisecond.
InitCache ==
    /\ now = 1
    /\ bindings = {}
    /\ navigation = TRUE
    /\ dispatch = TRUE
    /\ onPerformanceMetric = FALSE
    /\ onAction = FALSE
    /\ overrides = 0
    /\ globalData = InitialGlobalData
    /\ constructedWith = InitialGlobalData
    /\ pendingActions = {}
    /\ throttleTimers = [ty \in Types |-> 0]
    /\ metrics = [actionsExecuted |-> 0, actionsSucceeded |-> 0, actionsFailed |-> 0,
                  retryAttempts |-> 0, cacheHits |-> 0,
                  averageExecutionTime |-> [sum |-> 0, count |-> 0]]
    /\ executionTimes = <<>>
    /\ inv = <<>>
    /\ evaluated = <<>>
    /\ interpolated = <<>>
    /\ rendered = <<>>
    /\ store = InitialStore
    /\ client = <<>>
    /\ \E n \in {maxCacheSize - 1, maxCacheSize}, first \in {Key("", 0), Key("k", 1)},
          t0 \in 0..1 :
          \E t1 \in t0..1 :
             cache = [entries |-> Filled(n, first, t0, t1), time |-> 1, advances |-> 0]

NextCache ==
    \/ \E key \in CacheKeys : CacheSet(key)
    \/ \E key \in CacheKeys : CacheGet(key)
    \/ CacheClear
    \/ \E ms \in {1, maxAge + 1} : TimePasses(ms)

SpecCache == InitCache /\ [][NextCache]_vars

----------------------------------------------------------------------------
(* The claims.                                                              *)

\* The invocations the engine's own executeAction ran (not those the host's
\* onAction handled instead).
EngineInvocations == {i \in 1..Len(inv) : inv[i].how # "onAction"}

\* An admitted invocation that has not settled.
InFlight(i) == inv[i].pc # "done"

\* C1: at most one invocation with a given dedup key is in flight at any
\* time: while one is in flight, every later dispatch with the same key has
\* been skipped (it is settled) and has not run a verb handler.
C1_SingleInFlight ==
    \A i, j \in 1..Len(inv) :
        (i < j /\ inv[i].key = inv[j].key /\ InFlight(i)) =>
            ~InFlight(j) /\ inv[j].calls = 0

\* The fallback invocations that invocation i started.
Children(i) == {j \in 1..Len(inv) : inv[j].parent = i}

\* max(1, retry.maxAttempts), the number of attempts a descriptor allows.
AttemptLimit(action) ==
    IF action.retry # <<>> /\ action.retry[1].maxAttempts > 1
    THEN action.retry[1].maxAttempts ELSE 1

\* An action with none of the options that keep its handler from running
\* once, or make it run again.
Unconditional(action) ==
    action.condition = <<>> /\ action.throttle = 0 /\ action.retry = <<>>

\* C2: when the same navigate action is dispatched a second time before the
\* first dispatch has settled, the second dispatch resolves without invoking
\* a verb handler, and the navigation object is invoked exactly once.
C2_SecondNavigateSkipped ==
    \A i, j \in EngineInvocations :
        ( /\ i < j
          /\ inv[i].key = inv[j].key
          /\ {k \in 1..(j - 1) : inv[k].key = inv[j].key} = {i}
          /\ inv[j].concurrent
          /\ inv[j].action.type = "navigate" ) =>
            /\ inv[j].pc = "done"
            /\ inv[j].outcome = "resolved"
            /\ inv[j].calls = 0
            /\ inv[j].navCalls = 0
            /\ (navigation /\ Unconditional(inv[i].action)) =>
                  /\ inv[i].navCalls + inv[j].navCalls <= 1
                  /\ inv[i].pc = "done" => inv[i].navCalls + inv[j].navCalls = 1

\* Two identical navigate dispatches, the second made while the first was in
\* flight, both settled, the navigation invoked by the first.
C2_Witness ==
    \E i, j \in EngineInvocations :
        /\ i < j
        /\ inv[i].key = inv[j].key
        /\ {k \in 1..(j - 1) : inv[k].key = inv[j].key} = {i}
        /\ inv[j].concurrent
        /\ inv[j].action.type = "navigate"
        /\ navigation
        /\ inv[i].pc = "done" /\ inv[j].pc = "done"
        /\ inv[i].navCalls = 1

\* C3: a fallback runs only once every attempt of the primary has failed;
\* when every attempt has failed, an action with a fallback waits for it and
\* settles as the fallback settles (its own error is dropped), and an action
\* without one rejects with the error of its handler.
C3_FallbackAfterFailure ==
    \A i \in EngineInvocations :
        LET r == inv[i] IN
        /\ \A j \in Children(i) :
              /\ r.failures = AttemptLimit(r.action)
              /\ r.action.fallback = <<inv[j].action>>
        /\ r.failures = AttemptLimit(r.action) =>
              IF r.action.fallback # <<>>
              THEN /\ Cardinality(Children(i)) = 1
                   /\ r.pc \in {"fallback", "done"}
                   /\ r.pc = "done" =>
                         \A j \in Children(i) :
                            /\ inv[j].pc = "done"
                            /\ r.outcome = inv[j].outcome
                            /\ r.err = inv[j].err
              ELSE /\ r.pc = "done"
                   /\ r.outcome = "rejected"
                   /\ r.err = [inv |-> i, attempt |-> AttemptLimit(r.action)]

\* An action whose two attempts failed and whose fallback succeeded, and an
\* action without fallback that was rejected.
C3_Witness ==
    /\ \E i \in EngineInvocations :
          /\ inv[i].failures = 2
          /\ inv[i].pc = "done"
          /\ inv[i].outcome = "resolved"
          /\ \E j \in Children(i) : inv[j].calls = 1
    /\ \E i \in EngineInvocations :
          /\ inv[i].failures = 1
          /\ inv[i].action.fallback = <<>>
          /\ inv[i].outcome = "rejected"

\* C4: an invocation calls its verb handler at most max(1, maxAttempts)
\* times and waits for a retry only while attempts remain, calls it exactly
\* once when no retry is set (and the verb exists), and not again after an
\* attempt succeeded.
C4_BoundedAttempts ==
    \A i \in EngineInvocations :
        LET r == inv[i] IN
        /\ r.calls <= AttemptLimit(r.action)
        /\ r.attempt <= AttemptLimit(r.action)
        /\ r.pc = "backoff" => r.attempt < AttemptLimit(r.action)
        /\ (r.action.retry = <<>> /\ r.action.type \in VerbCatalog /\ r.attempt >= 1) =>
              r.calls = 1
        /\ r.how = "success" => r.pc = "done" /\ r.calls = r.failures + 1

\* A handler called twice under maxAttempts = 2, and a handler that
\* succeeded at its second attempt.
C4_Witness ==
    \E i \in EngineInvocations :
        /\ AttemptLimit(inv[i].action) = 2
        /\ inv[i].calls = 2
        /\ inv[i].how = "success"

\* C5 as stated: every settled invocation of a type outside the catalog is
\* rejected.
C5_UnknownAlwaysRejects ==
    \A i \in EngineInvocations :
        (inv[i].action.type \notin VerbCatalog /\ inv[i].pc = "done") =>
            inv[i].outcome = "rejected"

\* C5, amended: an invocation of a type outside the catalog never calls a
\* handler and never succeeds; unless it was skipped as a duplicate or by
\* its throttle, or its condition was false, it is rejected when it has no
\* fallback and settles as its fallback settles when it has one.
C5_UnknownRejectsWhenExecuted ==
    \A i \in EngineInvocations :
        LET r == inv[i] IN
        r.action.type \notin VerbCatalog =>
            /\ r.calls = 0
            /\ r.how # "success"
            /\ (r.pc = "done" /\ r.how \notin {"duplicate", "throttled", "conditionFalse"}) =>
                  IF r.action.fallback = <<>>
                  THEN r.outcome = "rejected" /\ r.err = [inv |-> i, attempt |-> 1]
                  ELSE \E j \in Children(i) : r.outcome = inv[j].outcome

\* An unknown type, executed without fallback, rejected.
C5_Witness ==
    \E i \in EngineInvocations :
        /\ inv[i].action.type \notin VerbCatalog
        /\ inv[i].action.fallback = <<>>
        /\ inv[i].action.condition = <<>>
        /\ inv[i].outcome = "rejected"

\* The record of the executeAction call this step makes, if it makes one
\* (a dispatch by the host, or the fallback call of a catch block).
Called == Len(inv) + 1

\* C6 as stated: a dispatch with throttle t, made less than t ms after a verb
\* handler of the same type ran, is skipped: it settles at once, resolved,
\* without a handler call.
C6_SkippedAfterAnyExecution ==
    [][ ( /\ Len(inv') > Len(inv)
          /\ inv'[Called].how # "onAction"
          /\ inv'[Called].action.throttle # 0
          /\ \E i \in 1..Len(inv) :
                /\ inv[i].action.type = inv'[Called].action.type
                /\ inv[i].calls >= 1
                /\ now - inv[i].calledAt < inv'[Called].action.throttle ) =>
            /\ inv'[Called].pc = "done"
            /\ inv'[Called].outcome = "resolved"
            /\ inv'[Called].calls = 0 ]_vars

\* An earlier invocation that passed the throttle check: it carried a
\* throttle and was skipped neither as a duplicate nor by the throttle.
Stamped(i) ==
    /\ inv[i].action.throttle # 0
    /\ inv[i].how \notin {"duplicate", "throttled", "onAction"}

\* C6, amended: a dispatch with throttle t, made less than t ms after a
\* dispatch of the same type (any payload, any component) that carried a
\* throttle itself and passed the throttle check, is skipped: it settles at
\* once, resolved, without a handler call.
C6_SkippedInsideWindow ==
    [][ ( /\ Len(inv') > Len(inv)
          /\ inv'[Called].how # "onAction"
          /\ inv'[Called].action.throttle # 0
          /\ \E i \in 1..Len(inv) :
                /\ inv[i].action.type = inv'[Called].action.type
                /\ Stamped(i)
                /\ now - inv[i].startTime < inv'[Called].action.throttle ) =>
            /\ inv'[Called].pc = "done"
            /\ inv'[Called].outcome = "resolved"
            /\ inv'[Called].calls = 0 ]_vars

\* A dispatch skipped by the throttle of an earlier dispatch of its type
\* with another payload.
C6_Witness ==
    \E i, j \in EngineInvocations :
        /\ i < j
        /\ Stamped(i)
        /\ inv[i].action.type = inv[j].action.type
        /\ inv[i].action.payload # inv[j].action.payload
        /\ inv[j].action.throttle # 0
        /\ inv[j].startTime - inv[i].startTime < inv[j].action.throttle
        /\ inv[j].how = "throttled"
        /\ inv[j].outcome = "resolved"
        /\ inv[j].calls = 0

\* The invocations whose verb handler this step calls.
HandlerCalledNow(i) ==
    /\ i \in 1..Len(inv')
    /\ inv'[i].how # "onAction"
    /\ inv'[i].calls > (IF i <= Len(inv) THEN inv[i].calls ELSE 0)

\* C7, every step: a handler never runs before the debounce delay of its
\* action has passed since the dispatch, and nothing but the end of the
\* delay moves an invocation out of its debounce wait, which then goes on
\* to the condition check and the handler.
C7_Step ==
    /\ \A i \in 1..Len(inv') :
          HandlerCalledNow(i) => now >= inv'[i].startTime + inv'[i].action.debounce
    /\ \A i \in 1..Len(inv) :
          inv[i].pc = "debounce" =>
              \/ inv'[i] = inv[i]
              \/ /\ now >= inv[i].startTime + inv[i].action.debounce
                 /\ IF conditionFails(Engine, inv[i].action)
                    THEN inv'[i].pc = "done" /\ inv'[i].how = "conditionFalse"
                    ELSE inv'[i].pc = "handler" /\ inv'[i].attempt = 1

\* C7, every state: an invocation whose debounce delay has passed can go on.
C7_Ready ==
    \A i \in 1..Len(inv) :
        (inv[i].pc = "debounce" /\ now >= inv[i].startTime + inv[i].action.debounce) =>
            ENABLED DebounceEnds(i)

\* C7: debounce is a pure delay.
C7_PureDelay == []C7_Ready /\ [][C7_Step]_vars

\* A debounced action whose handler ran although an identical action was
\* dispatched during its delay.
C7_Witness ==
    \E i, j \in EngineInvocations :
        /\ i < j
        /\ inv[i].action.debounce # 0
        /\ inv[i].key = inv[j].key
        /\ inv[j].concurrent
        /\ inv[i].calls = 1
        /\ inv[i].calledAt >= inv[i].startTime + inv[i].action.debounce

\* The invocations whose condition this step evaluates: those leaving the
\* debounce wait, and those called without debounce that were not skipped.
ConditionEvaluatedNow(i) ==
    \/ /\ i \in 1..Len(inv)
       /\ inv[i].pc = "debounce"
       /\ inv'[i] # inv[i]
    \/ /\ i = Called
       /\ Len(inv') > Len(inv)
       /\ inv'[i].action.debounce = 0
       /\ inv'[i].how \notin {"duplicate", "throttled", "onAction"}

\* C8: an invocation whose condition is false when it is evaluated settles
\* in that step, resolved, with no handler call, no retry, no fallback call,
\* no analytics, and actionsSucceeded and actionsFailed as they were.
C8_FalseConditionNoOp ==
    [][ \A i \in 1..Len(inv') :
          ( /\ ConditionEvaluatedNow(i)
            /\ inv'[i].action.condition # <<>>
            /\ ~evaluateCondition(inv'[i].action.condition[1], globalData) ) =>
              /\ inv'[i].pc = "done"
              /\ inv'[i].outcome = "resolved"
              /\ inv'[i].calls = 0
              /\ inv'[i].attempt = 0
              /\ inv'[i].analytics = 0
              /\ Len(inv') = IF i = Called THEN Len(inv) + 1 ELSE Len(inv)
              /\ metrics'.actionsSucceeded = metrics.actionsSucceeded
              /\ metrics'.actionsFailed = metrics.actionsFailed
              /\ metrics'.retryAttempts = metrics.retryAttempts ]_vars

\* An action with analytics, admitted while its condition was true, settled
\* as a no-op because the condition was false after the debounce delay.
C8_Witness ==
    \E i \in EngineInvocations :
        /\ inv[i].action.condition # <<>>
        /\ inv[i].action.analytics
        /\ inv[i].action.debounce # 0
        /\ inv[i].how = "conditionFalse"
        /\ inv[i].outcome = "resolved"
        /\ inv[i].calls = 0

\* The invocations of the engine's executeAction that settle in this step.
SettlesNow(i) ==
    /\ i \in 1..Len(inv')
    /\ inv'[i].pc = "done"
    /\ inv'[i].how # "onAction"
    /\ (i <= Len(inv) => inv[i].pc # "done")

\* C9, every step: an invocation that settles, however it ends, leaves the
\* pending set without its key, has appended its duration as the one new
\* sample, leaves the average equal to that of the window, and has emitted
\* one metric exactly if the callback is registered.
C9_Step ==
    /\ \A i \in 1..Len(inv') :
          SettlesNow(i) =>
              /\ inv'[i].key \notin pendingActions'
              /\ executionTimes' # <<>>
              /\ executionTimes'[Len(executionTimes')] = now - inv'[i].startTime
              /\ Len(executionTimes) < WindowCap =>
                    executionTimes' = Append(executionTimes, now - inv'[i].startTime)
              /\ metrics'.averageExecutionTime = averageOf(executionTimes')
              /\ inv'[i].samples = 1
              /\ inv'[i].emitted = IF onPerformanceMetric THEN 1 ELSE 0
    /\ (\A i \in 1..Len(inv') : ~SettlesNow(i)) => executionTimes' = executionTimes
    /\ \A i \in 1..Len(inv) : inv[i].pc = "done" => inv'[i] = inv[i]

\* C9, every state: one sample per settled invocation, none before.
C9_Counted ==
    /\ Len(executionTimes) = Cardinality({i \in EngineInvocations : inv[i].pc = "done"})
    /\ \A i \in EngineInvocations :
          inv[i].pc # "done" => inv[i].samples = 0 /\ inv[i].emitted = 0

\* C9: the finally block runs once for every invocation.
C9_AlwaysFinalised == []C9_Counted /\ [][C9_Step]_vars

\* Invocations settled in each of the ways the claim lists, with the
\* callback registered.
C9_Witness ==
    /\ onPerformanceMetric
    /\ \E i \in EngineInvocations : inv[i].how = "duplicate" /\ inv[i].emitted = 1
    /\ \E i \in EngineInvocations : inv[i].how = "fallback" /\ inv[i].emitted = 1
    /\ \E i \in EngineInvocations : inv[i].how = "success" /\ inv[i].emitted = 1

\* C10: the payload a verb handler receives is the payload of the action
\* with its placeholders resolved against the global data of that moment.
C10_HandlerGetsResolvedPayload ==
    [][ \A i \in 1..Len(inv') :
          HandlerCalledNow(i) =>
              inv'[i].received = interpolatePayload(inv'[i].action.payload, globalData) ]_vars

\* The invocations made through a wrapper the renderer installed.
Intercepted == {i \in 1..Len(inv) : inv[i].viaOnAction}

\* C11: a descriptor dispatched while the host supplies onAction is not
\* executed by the engine when the current onAction completes normally, and
\* is executed by the engine when the current onAction throws.
C11_OverrideThenDefault ==
    \A i \in Intercepted :
        /\ inv[i].threw = 0 => inv[i].how = "onAction"
        /\ inv[i].threw >= 1 => inv[i].how # "onAction"

\* The invocations whose attempt fails in this step with attempts left.
RetryScheduledNow(i) ==
    /\ inv[i].pc = "handler"
    /\ inv'[i].pc = "backoff"

\* C12: after its k-th failed attempt an invocation with attempts left waits
\* retry.delay ms under linear (or absent) back-off and retry.delay * 2^(k-1)
\* ms under exponential back-off, whatever delay is configured.
C12_WaitsConfiguredDelay ==
    [][ \A i \in 1..Len(inv) :
          RetryScheduledNow(i) =>
              LET retry == inv[i].action.retry[1]
                  k == inv'[i].failures
              IN inv'[i].wakeAt - now =
                    IF retry.backoff = "exponential"
                    THEN retry.delay * Pow2(k - 1)
                    ELSE retry.delay ]_vars

\* C13, every step: a sample recorded when the window holds WindowCap
\* samples leaves the most recent WindowKeep samples, the new one last.
C13_Step ==
    \A i \in 1..Len(inv') :
        SettlesNow(i) =>
            LET all == Append(executionTimes, now - inv'[i].startTime)
            IN IF Len(executionTimes) < WindowCap
               THEN executionTimes' = all
               ELSE executionTimes' =
                       [k \in 1..WindowKeep |-> all[Len(all) - WindowKeep + k]]

\* C13: the window never holds more than WindowCap samples, and is cut to
\* the most recent WindowKeep when a sample would exceed the cap.
C13_WindowBounded == [](Len(executionTimes) <= WindowCap) /\ [][C13_Step]_vars

\* A window that was full and has been cut.
C13_Witness ==
    /\ Len(executionTimes) = WindowKeep
    /\ \E i \in EngineInvocations : inv[i].pc = "done"

\* What the engine resolves a top-level key to.
Resolves(data, k) == getFieldValue(<<k>>, data)

\* The top-level keys of the model.
ContextKeys == {"flag", "dest", "count"}

\* After updateGlobalData(d) every key of d resolves to the value d gives
\* it and every other key to what it resolved to before.
MergedInto(d, before, after) ==
    \A k \in ContextKeys :
        Resolves(after, k) = IF k \in DOMAIN d THEN d[k] ELSE Resolves(before, k)

\* C14 as stated: updateGlobalData(d) merges d into the engine's context,
\* and the object the engine was constructed with is the one updated.
C14_MergesInPlace ==
    [][ \A d \in ContextUpdates :
          UpdateGlobalData(d) =>
              /\ MergedInto(d, globalData, globalData')
              /\ MergedInto(d, constructedWith, constructedWith') ]_vars

\* C14, amended: updateGlobalData(d) merges d into the engine's context,
\* which conditions and templates resolve against from then on, and leaves
\* the object the engine was constructed with as it was.
C14_MergesIntoCopy ==
    [][ /\ \A d \in ContextUpdates :
              UpdateGlobalData(d) =>
                  /\ MergedInto(d, globalData, globalData')
                  /\ constructedWith' = constructedWith
        /\ \A i \in 1..Len(inv') :
              (ConditionEvaluatedNow(i) /\ inv'[i].action.condition # <<>>) =>
                  (inv'[i].how = "conditionFalse") =
                      (Resolves(globalData, "flag") # Bool(TRUE)) ]_vars

\* An engine whose context was updated twice, a key of the first update
\* kept by the second, while the constructor's object still holds the first
\* values, and a conditional action skipped on the updated flag.
C14_Witness ==
    /\ Resolves(globalData, "count") = Num(1)
    /\ Resolves(globalData, "dest") = Lit("Settings")
    /\ constructedWith = InitialGlobalData
    /\ \E i \in EngineInvocations : inv[i].how = "conditionFalse"

\* A navigate invocation without a target, or on an engine without a
\* navigation object.
NavigateCannotRun(i) ==
    /\ inv[i].action.type = "navigate"
    /\ \/ ~navigation
       \/ Resolves(inv[i].action.payload, "navigateTo") = Undefined

\* C15 as stated: every settled navigate invocation without target or
\* without navigation object is rejected, and has called none of the
\* navigation methods.
C15_NavigateAlwaysRejects ==
    \A i \in EngineInvocations :
        (NavigateCannotRun(i) /\ inv[i].pc = "done") =>
            inv[i].outcome = "rejected" /\ inv[i].navCalls = 0

\* C15, amended: a navigate invocation without target or without navigation
\* object never calls a navigation method and never succeeds; unless it was
\* skipped as a duplicate or by its throttle, or its condition was false, it
\* is rejected when it has no fallback and settles as its fallback settles
\* when it has one.
C15_NavigateRejectsWhenExecuted ==
    \A i \in EngineInvocations :
        LET r == inv[i] IN
        NavigateCannotRun(i) =>
            /\ r.navCalls = 0
            /\ r.how # "success"
            /\ (r.pc = "done" /\ r.how \notin {"duplicate", "throttled", "conditionFalse"}) =>
                  IF r.action.fallback = <<>>
                  THEN r.outcome = "rejected" /\ r.failures = AttemptLimit(r.action)
                  ELSE \E j \in Children(i) : r.outcome = inv[j].outcome

\* A navigate action with a target, executed without a navigation object
\* and rejected.
C15_Witness ==
    \E i \in EngineInvocations :
        /\ inv[i].action.type = "navigate"
        /\ Resolves(inv[i].action.payload, "navigateTo") # Undefined
        /\ ~navigation
        /\ inv[i].calls = 1
        /\ inv[i].navCalls = 0
        /\ inv[i].outcome = "rejected"

\* C16: an updateState or dispatch invocation whose handler ran on an engine
\* without dispatch function is rejected.
C16_NoChannelRejects ==
    \A i \in EngineInvocations :
        ( /\ inv[i].action.type \in {"updateState", "dispatch"}
          /\ ~dispatch
          /\ inv[i].calls >= 1
          /\ inv[i].pc = "done" ) =>
            inv[i].outcome = "rejected"

\* C17: a showAlert invocation whose alert is displayed and none of whose
\* buttons has been pressed is in flight with its key in the pending set,
\* and one that resolved had a button pressed.
C17_AlertPendingUntilPressed ==
    \A i \in EngineInvocations :
        (inv[i].action.type = "showAlert" /\ inv[i].calls >= 1) =>
            /\ inv[i].pressed = 0 =>
                  /\ inv[i].pc = "handler"
                  /\ inv[i].key \in pendingActions
            /\ inv[i].outcome = "resolved" => inv[i].pressed >= 1

\* The invocations whose fetch gets a response in this step.
RespondedNow(i) ==
    /\ inv[i].pc = "handler"
    /\ inv'[i].status # inv[i].status

\* C18, every step: a response outside 200-299 to the last attempt of an
\* apiCall counts one failure and no success, records no analytics, rejects
\* the invocation when it has no fallback and starts the fallback otherwise.
C18_Step ==
    \A i \in 1..Len(inv) :
        (RespondedNow(i) /\ inv'[i].status \notin 200..299) =>
            /\ inv'[i].failures = inv[i].failures + 1
            /\ inv'[i].analytics = inv[i].analytics
            /\ metrics'.actionsSucceeded = metrics.actionsSucceeded
            /\ inv'[i].failures = AttemptLimit(inv[i].action) =>
                  /\ metrics'.actionsFailed = metrics.actionsFailed + 1
                  /\ IF inv[i].action.fallback = <<>>
                     THEN inv'[i].pc = "done" /\ inv'[i].outcome = "rejected"
                     ELSE inv'[i].pc = "fallback" /\ Len(inv') = Len(inv) + 1

\* C18, every state: an apiCall whose last response was outside 200-299
\* has not succeeded and has no analytics recorded.
C18_NeverSuccess ==
    \A i \in EngineInvocations :
        (inv[i].status # 0 /\ inv[i].status \notin 200..299) =>
            inv[i].how # "success" /\ inv[i].analytics = 0

\* C18: a non-2xx response is a failed verb execution.
C18_Non2xxFails == []C18_NeverSuccess /\ [][C18_Step]_vars

\* An apiCall with analytics that got a 404 and was rejected, the only
\* failure counted, nothing succeeded.
C18_Witness ==
    /\ metrics.actionsFailed = 1
    /\ metrics.actionsSucceeded = 0
    /\ \E i \in EngineInvocations :
          /\ inv[i].action.type = "apiCall"
          /\ inv[i].action.analytics
          /\ inv[i].status = 404
          /\ inv[i].outcome = "rejected"

\* C19: no call of evaluateCondition, the nested calls of and, or and not
\* included, ends with an exception, with or without the performance callback.
C19_NeverThrows ==
    \A i \in 1..Len(evaluated) :
        \A call \in evaluated[i].calls : call.result # "throws"

\* C20: a call of evaluateCondition for a condition object returns true when
\* the operator is outside the switch, and false when an exception is raised
\* in its try block (an invalid pattern, an ill-typed field, a nested call
\* that throws).
C20_FailOpenFailClosed ==
    \A i \in 1..Len(evaluated) :
        \A call \in evaluated[i].calls :
            ~call.condition.null =>
                /\ call.condition.operator \notin KnownOperators => call.result = "true"
                /\ call.raised => call.result = "false"

\* With the callback registered: an invalid pattern made the first nested
\* condition false and an unknown operator made the second true, so that the
\* or over both is true.
C20_Witness ==
    /\ onPerformanceMetric
    /\ evaluated # <<>>
    /\ evaluated[1].condition =
          Nested("or", <<Cond("regex", <<"dest">>, InvalidPattern),
                         Cond("between", <<"count">>, Num(1))>>)
    /\ \E call \in evaluated[1].calls : call.raised /\ call.result = "false"
    /\ evaluated[1].result = "true"

\* C21 (as stated): and over an empty list of nested conditions is false,
\* and or over an empty list is false.
C21_EmptyListsFalse ==
    \A i \in 1..Len(evaluated) :
        \A call \in evaluated[i].calls :
            /\ call.condition.operator \in {"and", "or"}
            /\ call.condition.hasConditions
            /\ call.condition.conditions = <<>>
            => call.result = "false"

\* C21 (amended): and over an empty list of nested conditions is true (every
\* of nothing), or over an empty list is false.
C21_EmptyAndTrueOrFalse ==
    \A i \in 1..Len(evaluated) :
        \A call \in evaluated[i].calls :
            /\ call.condition.hasConditions
            /\ call.condition.conditions = <<>>
            => /\ call.condition.operator = "and" => call.result = "true"
               /\ call.condition.operator = "or" => call.result = "false"

\* An or over an empty or and an empty and was evaluated: the first was false,
\* the second true.
C21_Witness ==
    /\ evaluated # <<>>
    /\ evaluated[1].condition = Nested("or", <<Nested("or", <<>>), Nested("and", <<>>)>>)
    /\ \E call \in evaluated[1].calls :
          call.condition = Nested("or", <<>>) /\ call.result = "false"
    /\ \E call \in evaluated[1].calls :
          call.condition = Nested("and", <<>>) /\ call.result = "true"

\* The evaluation of a condition over a non-empty list of condition objects.
EvaluatesNested(operator) ==
    /\ evaluated' # evaluated
    /\ evaluated'[1].condition.operator = operator
    /\ evaluated'[1].condition.hasConditions
    /\ evaluated'[1].condition.conditions # <<>>
    /\ \A k \in DOMAIN evaluated'[1].condition.conditions :
          ~evaluated'[1].condition.conditions[k].null

\* C22: over a non-empty list of conditions, and is true exactly when every
\* nested condition evaluates to true, or exactly when at least one does, and
\* not is the negation of the first nested condition whatever follows it.
C22_Step ==
    LET cs == evaluated'[1].condition.conditions
        Value(k) == evaluateConditionCall(cs[k], globalData, onPerformanceMetric) = "true"
        result == evaluated'[1].result = "true"
    IN /\ EvaluatesNested("and") => (result <=> \A k \in DOMAIN cs : Value(k))
       /\ EvaluatesNested("or") => (result <=> \E k \in DOMAIN cs : Value(k))
       /\ EvaluatesNested("not") => (result <=> ~Value(1))

C22_Composites == [][C22_Step]_vars

\* A not over two conditions, the first false and the second true, was
\* evaluated with the callback registered and is true.
C22_Witness ==
    /\ onPerformanceMetric
    /\ evaluated # <<>>
    /\ evaluated[1].condition =
          Nested("not", <<Nested("or", <<>>), Cond("between", <<"count">>, Num(1))>>)
    /\ evaluated[1].result = "true"

\* C23: a dotted path with a missing segment resolves to undefined, and on a
\* field that resolves to undefined exists is false, empty is true and equals
\* is false unless the value compared with is undefined or null.
C23_MissingIsUndefined ==
    \A i \in 1..Len(evaluated) :
        LET e == evaluated[i] IN
        /\ e.condition.field # IllTypedField /\ e.missing => e.read = Undefined
        /\ e.condition.field # IllTypedField /\ e.read = Undefined =>
              /\ e.condition.operator = "exists" => e.result = "false"
              /\ e.condition.operator = "empty" => e.result = "true"
              /\ e.condition.operator = "equals"
                    /\ e.condition.value \notin {Undefined, Null} => e.result = "false"

\* A call of interpolatePayload has just returned.
Interpolated == interpolated' # interpolated

\* C24: a string that is exactly one placeholder becomes the value its path
\* has in the context, with the type it has there, and stays the string it
\* was when the path is undefined.
C24_Step ==
    Interpolated /\ fullMatch(interpolated'[1].input) =>
        LET v == getFieldValue(interpolated'[1].input.segs[1].path, globalData)
        IN IF v # Undefined
           THEN interpolated'[1].result = v
           ELSE interpolated'[1].result = interpolated'[1].input

RECURSIVE Content(_)
\* What a value holds, whichever objects and arrays hold it.
Content(value) ==
    IF value.t \notin {"object", "array"} THEN value
    ELSE [value EXCEPT !.n = 0,
                       !.obj = [k \in DOMAIN value.obj |-> Content(value.obj[k])]]

\* C25: interpolating the result of an interpolation once more, in the same
\* context, gives a value equal to that result.
C25_Idempotent ==
    \A i \in 1..Len(interpolated) :
        Content(interpolated[i].again) = Content(interpolated[i].result)

\* C26 (as stated): interpolation leaves the context as it was, and every
\* object and array of its result is a rebuilt copy.
C26_AllRebuilt ==
    /\ [](\A i \in 1..Len(interpolated) :
            /\ Identities(interpolated[i].result) = {}
            /\ Identities(interpolated[i].output) = {})
    /\ [][Interpolated => globalData' = globalData]_vars

\* C26 (amended): interpolation leaves the context as it was; no object or
\* array of the input is part of the result, the ones traversed being
\* rebuilt; an object or array that is part of the result without having
\* been built by the call is one of the context, put in for a placeholder.
C26_InputRebuilt ==
    /\ [](\A i \in 1..Len(interpolated) :
            LET e == interpolated[i] IN
            /\ Identities(e.result) \cap Identities(e.input) = {}
            /\ Identities(e.output) \cap Identities(e.input) = {}
            /\ Identities(e.result) \subseteq Identities(InterpolateGlobalData)
            /\ e.input.t \in {"object", "array"} => e.result.n = 0 /\ e.output.n = 0)
    /\ [][Interpolated => globalData' = globalData]_vars

\* The props of a Text component were processed: the props, their array and
\* the object in it were rebuilt, the text was taken out of the copy, and
\* the label in the rebuilt object is the context's own user object.
C26_Witness ==
    /\ interpolated # <<>>
    /\ interpolated[1].input \in PropsInputs
    /\ interpolated[1].input.obj["text"] = Tpl(<<"user">>)
    /\ "text" \notin DOMAIN interpolated[1].output.obj
    /\ interpolated[1].output.obj["items"].n = 0
    /\ interpolated[1].output.obj["items"].obj[3].n = 0
    /\ interpolated[1].output.obj["items"].obj[3].obj["label"].n = 101

RECURSIVE Mounted(_)
\* The components mounted in what a component became.
Mounted(out) ==
    IF out \in {Nothing, Thrown} THEN {}
    ELSE {out} \cup UNION { Mounted(out.children[k]) : k \in DOMAIN out.children }

\* The depths at which the last render mounted components.
MountedDepths(r) ==
    { node.depth : node \in UNION { Mounted(r.output[k]) : k \in DOMAIN r.output } }

RECURSIVE TypesDownTo(_, _, _)
\* The types of the components of a tree at depths up to maxDepth.
TypesDownTo(component, depth, maxDepth) ==
    IF depth > maxDepth THEN {}
    ELSE {component.type}
         \cup UNION { TypesDownTo(component.children[k], depth + 1, maxDepth) :
                        k \in DOMAIN component.children }

RECURSIVE LevelsOf(_)
\* The number of levels of a tree.
LevelsOf(component) ==
    IF component.children = <<>> THEN 1
    ELSE LET deepest == CHOOSE k \in DOMAIN component.children :
                           \A j \in DOMAIN component.children :
                              LevelsOf(component.children[j]) <= LevelsOf(component.children[k])
         IN 1 + LevelsOf(component.children[deepest])

\* C27: no component at a depth beyond maxDepth is mounted, however deep the
\* tree, and what lies beyond maxDepth makes no render throw.
C27_DepthBounded ==
    \A i \in 1..Len(rendered) :
        LET r == rendered[i] IN
        /\ \A depth \in MountedDepths(r) : depth <= r.maxDepth
        /\ (\A k \in DOMAIN r.componentTree :
              \A type \in TypesDownTo(r.componentTree[k], 0, r.maxDepth) :
                 lookup(type) # "inherited")
           => ~r.threw

\* A tree of MaxLevels levels whose deepest component would throw when
\* mounted was rendered with the default maxDepth, down to depth 10 and
\* without throwing.
C27_Witness ==
    /\ rendered # <<>>
    /\ rendered[1].componentTree = <<Chain(MaxLevels, Node("constructor", <<>>))>>
    /\ rendered[1].maxDepth = DefaultMaxDepth
    /\ LevelsOf(rendered[1].componentTree[1]) > DefaultMaxDepth + 1
    /\ MountedDepths(rendered[1]) = 0..DefaultMaxDepth
    /\ ~rendered[1].threw

\* The tree of the scenario: 12 levels, rendered with maxDepth 10.
TwelveLevels(r) ==
    /\ r.componentTree = <<Chain(12, Node("View", <<>>))>>
    /\ r.maxDepth = 10

\* C28 (as stated): of a tree of 12 levels rendered with maxDepth 10, exactly
\* the first 10 levels are mounted, and the render does not throw.
C28_TenLevels ==
    \A i \in 1..Len(rendered) :
        TwelveLevels(rendered[i]) =>
            MountedDepths(rendered[i]) = 0..9 /\ ~rendered[i].threw

\* C28 (amended): of a tree of 12 levels rendered with maxDepth 10, exactly
\* the first 11 levels (depths 0 to 10) are mounted, the twelfth is not, and
\* the render does not throw.
C28_ElevenLevels ==
    \A i \in 1..Len(rendered) :
        TwelveLevels(rendered[i]) =>
            MountedDepths(rendered[i]) = 0..10 /\ ~rendered[i].threw

\* The tree of 12 levels was rendered with maxDepth 10 and components were
\* mounted at 11 depths.
C28_Witness ==
    /\ rendered # <<>>
    /\ TwelveLevels(rendered[1])
    /\ Cardinality(MountedDepths(rendered[1])) = 11

RECURSIVE Conforms(_, _, _, _)
\* Every component of a tree is mounted only with its hide condition absent
\* or false and its show condition absent or true; one with a true hide
\* condition, or a show condition that is not true, became nothing.
Conforms(component, out, data, callback) ==
    LET hideOn == /\ component.hide # <<>>
                  /\ evaluateConditionCall(component.hide[1], data, callback) = "true"
        showOff == /\ component.show # <<>>
                   /\ evaluateConditionCall(component.show[1], data, callback) # "true"
    IN /\ out # Nothing => ~hideOn /\ ~showOff
       /\ hideOn => out = Nothing
       /\ showOff => out = Nothing
       /\ \A k \in DOMAIN out.children :
             Conforms(component.children[k], out.children[k], data, callback)

\* A render has just been made.
Rendered == rendered' # rendered

\* C29: a component is mounted only if its hide condition is absent or false
\* and its show condition absent or true; a true hide condition gives
\* nothing even with a true show condition, and so does a false show
\* condition.
C29_Step ==
    Rendered =>
        \A k \in DOMAIN rendered'[1].componentTree :
            Conforms(rendered'[1].componentTree[k], rendered'[1].output[k],
                     globalData, onPerformanceMetric)

C29_HideThenShow == [][C29_Step]_vars

\* A component whose hide and show conditions are the same condition, true
\* in the context, was rendered and became nothing.
C29_Witness ==
    /\ rendered # <<>>
    /\ rendered[1].componentTree[1].hide = <<Cond("equals", <<"flag">>, Bool(TRUE))>>
    /\ rendered[1].componentTree[1].show = <<Cond("equals", <<"flag">>, Bool(TRUE))>>
    /\ getFieldValue(<<"flag">>, globalData) = Bool(TRUE)
    /\ rendered[1].maxDepth = DefaultMaxDepth
    /\ rendered[1].output[1] = Nothing

\* A sequence without its p-th element.
Without(seq, p) == SubSeq(seq, 1, p - 1) \o SubSeq(seq, p + 1, Len(seq))

\* C30: a component whose type is not in COMPONENT_MAP becomes nothing and
\* makes no render throw, and what its parent and its siblings become is
\* what they become in the tree without it.
C30_Step ==
    Rendered =>
        \A k \in DOMAIN rendered'[1].componentTree :
            LET parent == rendered'[1].componentTree[k]
                out == rendered'[1].output[k]
            IN \A p \in DOMAIN parent.children :
                  /\ parent.children[p].type \notin COMPONENT_MAP
                  /\ out \notin {Nothing, Thrown}
                  /\ out.children # <<>>
                  => /\ out.children[p] = Nothing
                     /\ ~rendered'[1].threw
                     /\ [out EXCEPT !.children = Without(@, p)]
                           = mount([parent EXCEPT !.children = Without(@, p)], 0,
                                   rendered'[1].maxDepth, globalData, onPerformanceMetric)

C30_UnknownTypeOmitted == [][C30_Step]_vars

\* C31: no exception raised while the tree is rendered reaches the host; the
\* fallback, once shown, stays until Try Again is pressed; and pressing it
\* clears the error state and mounts the tree again.
C31_Step ==
    /\ rendered' # <<>> => ~rendered'[1].escaped
    /\ (Alive /\ rendered[1].shown = "fallback" /\ rendered' # rendered)
         => \/ rendered'[1].shown = "fallback" /\ rendered'[1].hasError
            \/ rendered'[1].by = "retry"
    /\ (rendered' # rendered /\ rendered'[1].by = "retry")
         => /\ rendered'[1].output =
                  [k \in DOMAIN rendered[1].componentTree |->
                     mount(rendered[1].componentTree[k], 0, rendered[1].maxDepth,
                           globalData, onPerformanceMetric)]
            /\ rendered'[1].hasError = rendered'[1].threw

C31_CaughtAtBoundary == [][C31_Step]_vars

\* The language code of a selectLanguage invocation on an engine wired to
\* the store.
SelectsLanguage(r, c) ==
    /\ r.action.type = "selectLanguage"
    /\ dispatch
    /\ "languageCode" \in DOMAIN r.action.payload.obj
    /\ r.action.payload.obj.languageCode = c
    /\ Truthy(c)

LanguageCodes == {Lit("es"), Lit("ar")}

\* C32 (as stated): when executeAction of a selectLanguage action with
\* languageCode c resolves on an engine wired to the store, the store's
\* language.currentLanguage is c.
C32_ResolvedStep ==
    \A i \in 1..Len(inv'), c \in LanguageCodes :
        ( /\ SettlesNow(i)
          /\ SelectsLanguage(inv'[i], c)
          /\ inv'[i].outcome = "resolved" )
        => store'.language.currentLanguage = c

C32_Step ==
    /\ \A i \in 1..Len(inv'), c \in LanguageCodes :
          /\ (HandlerCalledNow(i) /\ SelectsLanguage(inv'[i], c))
                => store'.language = [currentLanguage |-> c,
                                      isRTL |-> c = Lit("ar"),
                                      initialized |-> TRUE]
          /\ ( /\ SettlesNow(i)
               /\ SelectsLanguage(inv'[i], c)
               /\ inv'[i].how = "success"
               /\ \A j \in 1..Len(inv') :
                     inv'[j].calls > 0 => SelectsLanguage(inv'[j], c) )
             => store'.language.currentLanguage = c
    /\ store'.language # store.language
         => \E i \in 1..Len(inv') :
               HandlerCalledNow(i) /\ inv'[i].action.type = "selectLanguage"

C33_CountersConsistent ==
    /\ (inv = <<>> /\ now = 1) => metrics = NoMetrics
    /\ metrics.actionsSucceeded + metrics.actionsFailed <= metrics.actionsExecuted

\* No executeAction invocation is in flight.
Quiescent == \A i \in 1..Len(inv) : inv[i].pc = "done"

\* C34: whenever no executeAction invocation is in flight the pending set is
\* empty, whatever successes, failures, skips and fallbacks came before.
C34_NoMarkerLeftBehind == Quiescent => pendingActions = {}

\* Nothing is in flight after a success, a rejection, a throttled skip and a
\* fallback, or after a failure whose fallback was skipped as a duplicate.
C34_Witness ==
    /\ Quiescent
    /\ pendingActions = {}
    /\ \/ /\ \E i \in 1..Len(inv) : inv[i].how = "success"
          /\ \E i \in 1..Len(inv) : inv[i].how = "failure" /\ inv[i].outcome = "rejected"
          /\ \E i \in 1..Len(inv) : inv[i].how = "throttled"
       \/ /\ \E i \in 1..Len(inv) : inv[i].how = "fallback"
          /\ \E i \in 1..Len(inv) : inv[i].how = "duplicate" /\ inv[i].parent # 0

\* C35: when a primary action has failed and its fallback has neither
\* throttle nor condition, the verb handler of the fallback has been invoked
\* by the time executeAction settles, also when the fallback has the type
\* and the payload of the primary.
C35_FallbackNotSuppressed ==
    \A i \in 1..Len(inv) :
        (inv[i].pc = "done" /\ inv[i].how = "fallback") =>
            \A j \in Children(i) :
                (inv[j].action.throttle = 0 /\ inv[j].action.condition = <<>>)
                => inv[j].calls >= 1

\* The dispatch of this step reaches the throttle check with throttle t
\* (it is not a duplicate) as a dispatch of the type of invocation i.
ArrivesAfter(i, t) ==
    /\ Len(inv') > Len(inv)
    /\ inv'[Called].how \notin {"onAction", "duplicate"}
    /\ inv'[Called].action.type = inv[i].action.type
    /\ inv'[Called].action.throttle = t

\* Invocation i is the last of its type that was admitted by the throttle
\* check.
LastAdmitted(i) ==
    /\ Stamped(i)
    /\ \A k \in 1..Len(inv) :
          (Stamped(k) /\ inv[k].action.type = inv[i].action.type) => k <= i

\* C36: a dispatch of type T with throttle t that arrives t ms or more after
\* the last admitted dispatch of type T with throttle t is admitted, however
\* many dispatches of type T were skipped since; and a skipped dispatch
\* leaves the timestamp of the type as it was.
C36_Step ==
    /\ \A i \in 1..Len(inv), t \in 1..MaxTime :
          ( /\ ArrivesAfter(i, t)
            /\ LastAdmitted(i)
            /\ inv[i].action.throttle = t
            /\ now >= inv[i].startTime + t )
          => inv'[Called].how # "throttled"
    /\ (Len(inv') > Len(inv) /\ inv'[Called].how = "throttled")
          => throttleTimers' = throttleTimers

C36_SkippedDoNotExtend == [][C36_Step]_vars

\* A dispatch with throttle 2 was admitted at time 1, one of its type was
\* skipped at time 2, and the next one, at time 3, was admitted.
C36_Witness ==
    \E i, k, j \in 1..Len(inv) :
        /\ i < k /\ k < j
        /\ Stamped(i) /\ inv[i].action.throttle = 2 /\ inv[i].startTime = 1
        /\ inv[k].how = "throttled" /\ inv[k].startTime = 2
        /\ inv[j].action.throttle = 2 /\ inv[j].startTime = 3
        /\ Stamped(j) /\ inv[j].calls = 1

\* C37: the reconnect counter never exceeds the configured cap, a connect
\* event returns it to 0, at most one reconnect timer is pending, and none is
\* pending by a call of attemptReconnection that found the cap reached.
C37_Step ==
    /\ client'.did = "connect" => client'.reconnectAttempts = 0
    /\ (client'.reconnectAttempts > client.reconnectAttempts)
          => /\ client.reconnectAttempts < client.limit
             /\ client'.reconnectAttempts = client.reconnectAttempts + 1
             /\ client'.timers = {client'.reconnectTimer}
    /\ (client'.timers # {} /\ client'.timers # client.timers)
          => client'.reconnectAttempts > client.reconnectAttempts

C37_Bounded ==
    /\ client.reconnectAttempts <= client.limit
    /\ Cardinality(client.timers) <= 1
    /\ client.timers # {} => client.timers = {client.reconnectTimer}

C37_CounterAndTimer == [][C37_Step /\ C37_Bounded /\ C37_Bounded']_vars

C37_Witness ==
    /\ client.limit > 0
    /\ client.reconnectAttempts = client.limit
    /\ client.did = "connect_error"
    /\ client.timers = {}

\* C38: after disconnect() no connection is opened until the host calls
\* connect() again.
C38_StaysDisconnected ==
    (client.opened /\ client.did # "connect()") => ~client.stopped

\* C39: once a fullConfigSync or screenConfigUpdate has been applied, the
\* cache load started by the constructor does not replace this.configs.
C39_Step ==
    (client.applied /\ client'.did = "loadCachedConfigurations")
        => client'.configs = client.configs

C39_ServerConfigsKept == [][C39_Step]_vars

\* C40: the cache never holds more than maxCacheSize entries.
C40_AtMostMaxCacheSize == Len(cache.entries) <= maxCacheSize

====
